---- MODULE Spec2Model ----
(***************************************************************************)
(* A model of atlas.js (src/unnamed/part_000): the Evented publish/        *)
(* subscribe base class, the Map view state (center, zoom, pixel origin,   *)
(* pane position), the PosAnimation frame loop and the TileLayer tile      *)
(* reconciliation.                                                         *)
(*                                                                         *)
(* Representation.  Pixel coordinates are JavaScript doubles; the model    *)
(* keeps them as integers counting 1/Sub pixel.  Sizes, offsets and pane   *)
(* positions are multiples of 1/Sub pixel small enough to be exact in a    *)
(* double, so the integer arithmetic below is the arithmetic the code      *)
(* performs on them; projected coordinates are rounded to 1/Sub pixel.     *)
(* Strings that the code parses (event type lists) or builds (tile URLs)   *)
(* are sequences of one-character strings.  Where the rounding of a double *)
(* decides the outcome (the center of a viewport of odd size, the          *)
(* projection round trip) the arithmetic is that of the IEEE 754 double,   *)
(* bit for bit: see the section on the JavaScript Number.  The pixel       *)
(* origin is kept both ways: pixelOrigin in 1/Sub pixel, for the tile      *)
(* range and the pane, and pixelOriginNumber, the doubles, for             *)
(* latLngToContainerPoint.  Math.pow(2, zoom) is what the host returns     *)
(* (mathPow), and the methods of class Point are those of the host's       *)
(* class (pointMethods).  Where the identity of an object decides it (a    *)
(* Point shared between a Bounds and its caller) Points live on a heap:    *)
(* see SpecBounds.                                                         *)
(***************************************************************************)
EXTENDS Integers, Sequences, FiniteSets, TLC

VARIABLES
  ev,          \* the emitter's this._events (the Map's, in the map specification)
  lastOn,      \* the last on() call: its arguments
  lastOff,     \* the last off() call: its arguments and whether it threw
  lastFire,    \* the last fire() call: type, listeners at call time, invocation log, outcome
  center,      \* Map._center
  zoom,        \* Map._zoom, counted in 1/ZoomDen zoom levels
  pixelOrigin, \* Map._pixelOrigin, in 1/Sub pixel
  pixelOriginNumber, \* Map._pixelOrigin, the doubles its coordinates are
  size,        \* the container's clientWidth / clientHeight
  panePos,     \* Map._mapPane._pos
  anim,        \* Map._panAnim: the PosAnimation object
  frames,      \* the host's pending animation-frame callbacks
  nextId,      \* the host's next animation-frame id
  now,         \* Date.now()
  layer,       \* the TileLayer
  last,        \* the last Map operation, how it ended, and the number of pans so far
  seen,        \* what the moveend listener observed when it was last invoked
  pure,        \* the last call of a function on given arguments, with its result
  mathPow,     \* the host's Math.pow(2, .): the Number it returns for each zoom
  pointMethods \* the methods class Point provides

vars == <<ev, lastOn, lastOff, lastFire, center, zoom, pixelOrigin, pixelOriginNumber,
          size, panePos, anim, frames, nextId, now, layer, last, seen, pure, mathPow,
          pointMethods>>

(***************************************************************************)
(* Bounds of the model.                                                    *)
(***************************************************************************)
MaxListeners == 3
MaxFrames == 4
MaxClockTicks == 4
MaxZoom == 2
MaxPans == 2
MaxProbes == 1
MaxTileX == 9
MaxWrapZoom == 3
EnumWidth == 2

(***************************************************************************)
(* JavaScript values.                                                      *)
(***************************************************************************)
Undefined == "undefined"

Emitter == "emitter"

Last(s) == s[Len(s)]

IsPrefix(s, t) == Len(s) <= Len(t) /\ SubSeq(t, 1, Len(s)) = s

(***************************************************************************)
(* String.prototype.split(' '): the pieces between single spaces, empty    *)
(* pieces included ("a  b" gives "a", "", "b"; "" gives "").               *)
(***************************************************************************)
RECURSIVE SplitFrom(_, _, _, _)
SplitFrom(s, i, cur, acc) ==
  IF i > Len(s) THEN Append(acc, cur)
  ELSE IF s[i] = " " THEN SplitFrom(s, i + 1, <<>>, Append(acc, cur))
  ELSE SplitFrom(s, i + 1, Append(cur, s[i]), acc)

Split(s) == SplitFrom(s, 1, <<>>, <<>>)

(***************************************************************************)
(* Evented.  The registry is this._events, a plain object: `defined` says  *)
(* whether the property exists, `keys` lists its own keys in the order     *)
(* they were created (Object.keys lists the array indices among them       *)
(* first: see ObjectKeys), `reg` maps each own key that holds a listener   *)
(* array to that array, and `objects` is the set of own keys that hold a   *)
(* member taken over from Object.prototype.  A plain object inherits the   *)
(* members of Object.prototype, so this._events[type] finds them under     *)
(* their names.                                                            *)
(***************************************************************************)
ProtoKey == <<"_", "_", "p", "r", "o", "t", "o", "_", "_">>

\* the names of the members of Object.prototype
ObjectPrototypeKeys ==
  {<<"c", "o", "n", "s", "t", "r", "u", "c", "t", "o", "r">>,
   <<"h", "a", "s", "O", "w", "n", "P", "r", "o", "p", "e", "r", "t", "y">>,
   <<"i", "s", "P", "r", "o", "t", "o", "t", "y", "p", "e", "O", "f">>,
   <<"p", "r", "o", "p", "e", "r", "t", "y", "I", "s", "E", "n", "u", "m", "e", "r",
     "a", "b", "l", "e">>,
   <<"t", "o", "L", "o", "c", "a", "l", "e", "S", "t", "r", "i", "n", "g">>,
   <<"t", "o", "S", "t", "r", "i", "n", "g">>,
   <<"v", "a", "l", "u", "e", "O", "f">>,
   <<"_", "_", "d", "e", "f", "i", "n", "e", "G", "e", "t", "t", "e", "r", "_", "_">>,
   <<"_", "_", "d", "e", "f", "i", "n", "e", "S", "e", "t", "t", "e", "r", "_", "_">>,
   <<"_", "_", "l", "o", "o", "k", "u", "p", "G", "e", "t", "t", "e", "r", "_", "_">>,
   <<"_", "_", "l", "o", "o", "k", "u", "p", "S", "e", "t", "t", "e", "r", "_", "_">>,
   ProtoKey}

NoEvents == [defined |-> FALSE, keys |-> <<>>, reg |-> <<>>, objects |-> {}]

\* the own keys of this._events
OwnKeys(e) == {e.keys[i] : i \in DOMAIN e.keys}

\* this._events?.[type]: a listener array, a member of Object.prototype (own
\* or inherited: a function or an object, never an array), or undefined
Listeners(e, type) ==
  IF e.defined /\ type \in DOMAIN e.reg THEN [kind |-> "array", arr |-> e.reg[type]]
  ELSE IF e.defined /\ (type \in e.objects \/ type \in ObjectPrototypeKeys)
  THEN [kind |-> "object", arr |-> <<>>]
  ELSE [kind |-> "undefined", arr |-> <<>>]

\* !!listeners: whether this._events?.[type] is truthy
HasKey(e, type) == Listeners(e, type).kind # "undefined"

\* the listeners registered under type: the elements of the array that
\* this._events[type] holds, none when it holds no array
ListenerArray(e, type) == Listeners(e, type).arr

\* this._events[type] = arr
SetKey(e, type, arr) ==
  [defined |-> TRUE,
   keys |-> IF type \in OwnKeys(e) THEN e.keys ELSE Append(e.keys, type),
   reg |-> [t \in (DOMAIN e.reg) \cup {type} |-> IF t = type THEN arr ELSE e.reg[t]],
   objects |-> e.objects \ {type}]

\* this._events[type] = this._events[type] where that is a member of
\* Object.prototype: the member becomes an own property, except under
\* __proto__, an accessor whose setter leaves the prototype as it was
SetObject(e, type) ==
  IF type = ProtoKey THEN e
  ELSE [e EXCEPT !.keys = IF type \in OwnKeys(e) THEN @ ELSE Append(@, type),
                 !.objects = @ \cup {type}]

\* delete this._events[type]
DeleteKey(e, type) ==
  [defined |-> TRUE,
   keys |-> SelectSeq(e.keys, LAMBDA k : k # type),
   reg |-> [t \in (DOMAIN e.reg) \ {type} |-> e.reg[t]],
   objects |-> e.objects \ {type}]

\* this._events = this._events || {}
Ensure(e) == IF e.defined THEN e ELSE [NoEvents EXCEPT !.defined = TRUE]

\* (this._events[type] = this._events[type] || []).push({ fn, ctx }): a member
\* of Object.prototype is truthy and has no push method, so the call raises a
\* TypeError after the assignment
Push(e, type, fn, ctx) ==
  LET listeners == Listeners(e, type)
  IN IF listeners.kind = "object"
     THEN [ev |-> SetObject(e, type), threw |-> TRUE]
     ELSE [ev |-> SetKey(e, type, Append(listeners.arr, [fn |-> fn, ctx |-> ctx])),
           threw |-> FALSE]

RECURSIVE OnEach(_, _, _, _, _)
OnEach(r, types, i, fn, ctx) ==
  IF i > Len(types) \/ r.threw THEN r
  ELSE OnEach(Push(r.ev, types[i], fn, ctx), types, i + 1, fn, ctx)

\* on(types, fn, ctx): the registry afterwards and whether the call threw
On(e, types, fn, ctx) ==
  OnEach([ev |-> Ensure(e), threw |-> FALSE], Split(types), 1, fn, ctx)

(***************************************************************************)
(* Numbers.  Sub is the number of model units per pixel; ZoomDen the       *)
(* number of model units per zoom level (zoom may be fractional: setZoom   *)
(* takes any number and TileLayer rounds it).                              *)
(***************************************************************************)
Sub == 16

ZoomDen == 2

Min(a, b) == IF a <= b THEN a ELSE b

Max(a, b) == IF a >= b THEN a ELSE b

RECURSIVE Pow2(_)
Pow2(n) == IF n <= 0 THEN 1 ELSE 2 * Pow2(n - 1)

\* the JavaScript remainder a % b for b > 0: the sign follows the dividend
JsRem(a, b) == IF a >= 0 THEN a % b ELSE -((-a) % b)

\* Math.round of q/den: the nearest integer, halves towards +Infinity
MathRound(q, den) == (2 * q + den) \div (2 * den)

(***************************************************************************)
(* Point: x and y in 1/Sub pixel.                                          *)
(***************************************************************************)
Point(x, y) == [x |-> x, y |-> y]

Px(x, y) == Point(x * Sub, y * Sub)

add(p, q) == Point(p.x + q.x, p.y + q.y)

subtract(p, q) == Point(p.x - q.x, p.y - q.y)

multiplyBy(p, k) == Point(p.x * k, p.y * k)

\* exact whenever k divides the coordinates (the map divides an integer size by 2)
divideBy(p, k) == Point(p.x \div k, p.y \div k)

\* the methods class Point defines
PointMethods ==
  {"add", "subtract", "multiplyBy", "divideBy", "distanceTo", "clone", "equals", "round"}

(***************************************************************************)
(* Bounds.                                                                 *)
(***************************************************************************)
EmptyBounds == [valid |-> FALSE, min |-> Point(0, 0), max |-> Point(0, 0)]

extend(b, p) ==
  IF ~b.valid THEN [valid |-> TRUE, min |-> p, max |-> p]
  ELSE [valid |-> TRUE,
        min |-> Point(Min(b.min.x, p.x), Min(b.min.y, p.y)),
        max |-> Point(Max(b.max.x, p.x), Max(b.max.y, p.y))]

Bounds(a, b) == extend(extend(EmptyBounds, a), b)

(***************************************************************************)
(* LatLng: lat and lng in 1/1000 degree.  Projection: Map.project is       *)
(* CRS.project scaled by CRS.scale(zoom) / earthRadius, computed in        *)
(* doubles; the table holds its value rounded to 1/Sub pixel, for the      *)
(* coordinates and zoom levels the model uses.                             *)
(***************************************************************************)
LatLng(lat, lng) == [lat |-> lat, lng |-> lng]

Origin == LatLng(0, 0)

London == LatLng(51505, -90)

LondonProjection ==
  <<Point(-6, 4310), Point(-9, 6095), Point(-13, 8620), Point(-18, 12190),
    Point(-26, 17239), Point(-36, 24380), Point(-51, 34479), Point(-73, 48760)>>

\* Map.project(latlng, zoom)
project(latlng, z) ==
  IF latlng = Origin THEN Point(0, 0) ELSE LondonProjection[z + 1]

(***************************************************************************)
(* The JavaScript Number, the IEEE 754 double.  A Number is NaN, Infinity,  *)
(* -Infinity or finite: [neg, m, e], the number (-1)^neg * m * 2^e.  The   *)
(* natural number m is zero (+0 and -0 differ in neg) or has exactly       *)
(* Precision bits, and is kept as the sequence of its limbs of LimbBits    *)
(* bits, the lowest first; a Number below 2^-1022, which has fewer bits,   *)
(* is written with Precision bits as well, the lowest of them zero.  Sums, *)
(* differences, products and quotients are computed bit for bit, rounded   *)
(* to the nearest double with a tie going to the even one, to an infinity  *)
(* beyond the greatest double and to a multiple of 2^-1074 below 2^-1022.  *)
(***************************************************************************)
Precision == 53

LimbBits == 13

LimbBase == Pow2(LimbBits)

Limb(n, i) == IF i >= 1 /\ i <= Len(n) THEN n[i] ELSE 0

\* n without its leading zero limbs
Trim(n) ==
  LET used == {i \in DOMAIN n : n[i] # 0}
  IN IF used = {} THEN <<>>
     ELSE SubSeq(n, 1, CHOOSE i \in used : \A j \in used : j <= i)

\* the natural number of the integer k >= 0, and the integer of a natural
\* number below 2^31
NatOf(k) ==
  Trim(<<k % LimbBase, (k \div LimbBase) % LimbBase, k \div (LimbBase * LimbBase)>>)

IntOf(n) == Limb(n, 1) + LimbBase * Limb(n, 2) + LimbBase * LimbBase * Limb(n, 3)

RECURSIVE AddFrom(_, _, _, _)
AddFrom(a, b, i, carry) ==
  IF i > Max(Len(a), Len(b)) THEN (IF carry = 0 THEN <<>> ELSE <<carry>>)
  ELSE <<(Limb(a, i) + Limb(b, i) + carry) % LimbBase>>
         \o AddFrom(a, b, i + 1, (Limb(a, i) + Limb(b, i) + carry) \div LimbBase)

\* a + b
NatAdd(a, b) == AddFrom(a, b, 1, 0)

RECURSIVE SubFrom(_, _, _, _)
SubFrom(a, b, i, borrow) ==
  IF i > Len(a) THEN <<>>
  ELSE <<(Limb(a, i) - Limb(b, i) - borrow + LimbBase) % LimbBase>>
         \o SubFrom(a, b, i + 1, IF Limb(a, i) - Limb(b, i) - borrow < 0 THEN 1 ELSE 0)

\* a - b for a >= b
NatSub(a, b) == Trim(SubFrom(a, b, 1, 0))

\* a < b
NatLess(a, b) ==
  \E i \in 1 .. Max(Len(a), Len(b)) :
    /\ Limb(a, i) < Limb(b, i)
    /\ \A j \in i + 1 .. Max(Len(a), Len(b)) : Limb(a, j) = Limb(b, j)

\* the sum of the limb products a[i] * b[k + 1 - i]
RECURSIVE ColumnSum(_, _, _, _)
ColumnSum(a, b, k, i) ==
  IF i > Len(a) THEN 0
  ELSE Limb(a, i) * Limb(b, k + 1 - i) + ColumnSum(a, b, k, i + 1)

RECURSIVE MulFrom(_, _, _, _)
MulFrom(a, b, k, carry) ==
  IF k > Len(a) + Len(b) THEN <<>>
  ELSE <<(ColumnSum(a, b, k, 1) + carry) % LimbBase>>
         \o MulFrom(a, b, k + 1, (ColumnSum(a, b, k, 1) + carry) \div LimbBase)

\* a * b
NatMul(a, b) == Trim(MulFrom(a, b, 1, 0))

\* the number of bits of n
BitLen(n) ==
  IF n = <<>> THEN 0
  ELSE (Len(n) - 1) * LimbBits
         + (CHOOSE k \in 1 .. LimbBits : n[Len(n)] < Pow2(k) /\ n[Len(n)] >= Pow2(k - 1))

\* bit k of n, the lowest being bit 1
BitAt(n, k) == (Limb(n, ((k - 1) \div LimbBits) + 1) \div Pow2((k - 1) % LimbBits)) % 2

\* n * 2^k and the integer part of n / 2^k
Shl(n, k) ==
  IF n = <<>> THEN <<>>
  ELSE [i \in 1 .. k \div LimbBits |-> 0] \o NatMul(n, <<Pow2(k % LimbBits)>>)

Shr(n, k) ==
  Trim([i \in 1 .. Len(n) - (k \div LimbBits) |->
          (n[i + (k \div LimbBits)] \div Pow2(k % LimbBits))
            + (Limb(n, i + (k \div LimbBits) + 1) % Pow2(k % LimbBits))
                * Pow2(LimbBits - (k % LimbBits))])

Double(neg, m, e) == [t |-> "finite", neg |-> neg, m |-> m, e |-> e]

NaN == [t |-> "NaN", neg |-> FALSE, m |-> <<>>, e |-> 0]

Infinity == [t |-> "Infinity", neg |-> FALSE, m |-> <<>>, e |-> 0]

NegInfinity == [t |-> "-Infinity", neg |-> TRUE, m |-> <<>>, e |-> 0]

\* The limits of the double: the exponent of the lowest bit of a Number is at
\* least MinExponent, and at most MaxExponent when the Number has Precision bits
MinExponent == -1074

MaxExponent == 971

\* (-1)^neg * n * 2^e rounded, k being the number of bits n has too many
RoundedAt(neg, n, e, k) ==
  IF n = <<>> THEN Double(neg, <<>>, 0)
  ELSE IF k <= 0 THEN Double(neg, Shl(n, -k), e + k)
  ELSE IF BitAt(n, k) = 1 /\ (BitAt(n, k + 1) = 1 \/ \E i \in 1 .. k - 1 : BitAt(n, i) = 1)
       THEN (IF \A i \in k + 1 .. k + Precision : BitAt(n, i) = 1
             THEN Double(neg, Shl(<<1>>, Precision - 1), e + k + 1)
             ELSE Double(neg, NatAdd(Shr(n, k), <<1>>), e + k))
  ELSE Double(neg, Shr(n, k), e + k)

\* the Number of what the rounding left: a zero, an infinity when it is beyond
\* the greatest double, and otherwise written with Precision bits
Ranged(r, up) ==
  IF r.m = <<>> THEN Double(r.neg, <<>>, 0)
  ELSE IF r.e - up > MaxExponent THEN (IF r.neg THEN NegInfinity ELSE Infinity)
  ELSE Double(r.neg, Shl(r.m, up), r.e - up)

\* the double nearest to (-1)^neg * n * 2^e, a tie going to the even one: the
\* rounding of every arithmetic operation on Numbers.  The bits below
\* 2^MinExponent are rounded away as well.
RoundToDouble(neg, n, e) ==
  CHOOSE d \in {Ranged(r, Precision - BitLen(r.m)) :
                 r \in {RoundedAt(neg, t, e, Max(BitLen(t) - Precision, MinExponent - e)) :
                         t \in {Trim(n)}}} : TRUE

\* the Number of the integer k, |k| < 2^31
NumberOf(k) == RoundToDouble(k < 0, NatOf(IF k < 0 THEN -k ELSE k), 0)

\* -x
NumberNegate(x) ==
  CASE x.t = "NaN" -> NaN
    [] x.t = "Infinity" -> NegInfinity
    [] x.t = "-Infinity" -> Infinity
    [] x.t = "finite" -> Double(~x.neg, x.m, x.e)

\* x - y on finite Numbers that are not zero.  An operand more than
\* Precision + 2 binary places below the other is below a quarter of the unit
\* in the other's last place, and the difference rounds to the other.  A
\* difference of exactly zero is +0.
SubtractFinite(x, y) ==
  LET e0 == Min(x.e, y.e)
      a == Shl(x.m, x.e - e0)
      b == Shl(y.m, y.e - e0)
  IN IF x.e - y.e > Precision + 2 THEN x
     ELSE IF y.e - x.e > Precision + 2 THEN NumberNegate(y)
     ELSE IF x.neg # y.neg THEN RoundToDouble(x.neg, NatAdd(a, b), e0)
     ELSE IF a = b THEN Double(FALSE, <<>>, 0)
     ELSE IF NatLess(a, b) THEN RoundToDouble(~x.neg, NatSub(b, a), e0)
     ELSE RoundToDouble(x.neg, NatSub(a, b), e0)

\* x - y on Numbers: NaN of a NaN and of two infinities of one sign; of two
\* zeros, -0 only for (-0) - (+0)
NumberSubtract(x, y) ==
  IF x.t = "NaN" \/ y.t = "NaN" THEN NaN
  ELSE IF x.t # "finite" THEN (IF y.t = x.t THEN NaN ELSE x)
  ELSE IF y.t # "finite" THEN NumberNegate(y)
  ELSE IF x.m = <<>> /\ y.m = <<>> THEN Double(x.neg /\ ~y.neg, <<>>, 0)
  ELSE IF x.m = <<>> THEN NumberNegate(y)
  ELSE IF y.m = <<>> THEN x
  ELSE SubtractFinite(x, y)

\* x * y on Numbers: NaN of a NaN and of an infinity times a zero; the sign is
\* that of the operands' product, of a zero too
NumberMultiply(x, y) ==
  IF x.t = "NaN" \/ y.t = "NaN" THEN NaN
  ELSE IF x.t # "finite" \/ y.t # "finite"
       THEN (IF (x.t = "finite" /\ x.m = <<>>) \/ (y.t = "finite" /\ y.m = <<>>) THEN NaN
             ELSE IF x.neg # y.neg THEN NegInfinity ELSE Infinity)
  ELSE RoundToDouble(x.neg # y.neg, NatMul(x.m, y.m), x.e + y.e)

\* one step of the long division by b: the next bit of the quotient
DivStep(s, b) ==
  IF NatLess(s.rem, b)
  THEN [q |-> NatAdd(s.q, s.q), rem |-> NatAdd(s.rem, s.rem)]
  ELSE [q |-> NatAdd(NatAdd(s.q, s.q), <<1>>),
        rem |-> NatMul(NatSub(s.rem, b), <<2>>)]

\* n steps of the long division; every operand is bound to its value, to be
\* evaluated once
RECURSIVE DivSteps(_, _, _)
DivSteps(s0, b0, n0) ==
  IF n0 = 0 THEN s0
  ELSE CHOOSE r \in {DivSteps(DivStep(s, b), b, n - 1) :
                      s \in {s0}, b \in {b0}, n \in {n0}} : TRUE

DivStepsPerBlock == 8

DivBlocks == 7

RECURSIVE DivideFrom(_, _, _)
DivideFrom(s0, b0, m0) ==
  IF m0 = 0 THEN s0
  ELSE CHOOSE r \in {DivideFrom(DivSteps(s, b, DivStepsPerBlock), b, m - 1) :
                      s \in {s0}, b \in {b0}, m \in {m0}} : TRUE

\* the quotient of the mantissas over DivBlocks * DivStepsPerBlock bits, and
\* below them one bit that tells whether anything is left
Quotient(a, b) ==
  CHOOSE n \in {NatAdd(NatAdd(s.q, s.q), IF s.rem = <<>> THEN <<>> ELSE <<1>>) :
                 s \in {DivideFrom([q |-> <<>>, rem |-> a], b, DivBlocks)}} : TRUE

\* x / y on Numbers: NaN of a NaN, of two infinities and of two zeros; an
\* infinity of an infinity and of a division by zero; a zero of a zero and of
\* a division by an infinity; the sign is that of the operands' quotient
NumberDivide(x, y) ==
  IF x.t = "NaN" \/ y.t = "NaN" THEN NaN
  ELSE IF x.t # "finite" /\ y.t # "finite" THEN NaN
  ELSE IF x.t = "finite" /\ y.t = "finite" /\ x.m = <<>> /\ y.m = <<>> THEN NaN
  ELSE IF x.t # "finite" \/ (y.t = "finite" /\ y.m = <<>>)
       THEN (IF x.neg # y.neg THEN NegInfinity ELSE Infinity)
  ELSE IF y.t # "finite" \/ x.m = <<>> THEN Double(x.neg # y.neg, <<>>, 0)
  ELSE RoundToDouble(x.neg # y.neg, Quotient(x.m, y.m),
                     x.e - y.e - DivBlocks * DivStepsPerBlock)

\* x / 2 on Numbers: exact unless the half is below 2^-1022
NumberHalf(x) ==
  IF x.t # "finite" \/ x.m = <<>> THEN x ELSE RoundToDouble(x.neg, x.m, x.e - 1)

\* Math.round(x): the nearest integer, a half going towards +Infinity.  NaN,
\* the infinities and the zeros are returned as they are, and what rounds to
\* zero from below is -0.
NumberRound(x) ==
  IF x.t # "finite" \/ x.m = <<>> \/ x.e >= 0 THEN x
  ELSE LET whole == Shr(x.m, -x.e)
           half == BitAt(x.m, -x.e) = 1
           more == \E i \in 1 .. Min(-x.e - 1, Precision) : BitAt(x.m, i) = 1
       IN RoundToDouble(x.neg,
                        IF half /\ (more \/ ~x.neg) THEN NatAdd(whole, <<1>>) ELSE whole,
                        0)

\* (int) x: the integer part of a finite Number x, |x| < 2^31
Truncated(x) ==
  IF x.m = <<>> THEN 0
  ELSE (IF x.neg THEN -1 ELSE 1) * IntOf(Shr(x.m, -x.e))

(***************************************************************************)
(* The projection in Numbers.  Latitudes and longitudes are given in       *)
(* 1/1000 degree; Math.sin and Math.log are taken from the values they     *)
(* have at the latitudes drawn.  Math.exp and Math.atan of unproject are   *)
(* computed: see SpecProjection.                                           *)
(***************************************************************************)
\* Math.PI
MathPI == Double(FALSE, <<3352, 545, 7893, 4675, 1>>, -51)

\* earthRadius = 6378137
earthRadius == NumberOf(6378137)

\* the Number a coordinate of k/1000 degree is written as
Degrees(k) == NumberDivide(NumberOf(k), NumberOf(1000))

\* MAX_LATITUDE = 85.0511287798 lies between 85.051 and 85.052 degree: among
\* the latitudes in 1/1000 degree, 85052 stands for the limit itself
MaxLatitude == 85052

\* Math.max(Math.min(MAX_LATITUDE, latlng.lat), -MAX_LATITUDE)
clampedLat(lat) == Max(Min(MaxLatitude, lat), -MaxLatitude)

\* earthRadius * Math.log((1 + sin) / (1 - sin)) / 2 for sin = Math.sin(lat * d)
MercatorY(lat) ==
  CASE lat = 0 -> Double(FALSE, <<>>, 0)
    [] lat = 51505 -> Double(FALSE, <<7079, 7366, 5267, 4915, 1>>, -30)
    [] lat = 40713 -> Double(FALSE, <<1429, 1838, 1871, 1515, 1>>, -30)
    [] lat = -33869 -> Double(TRUE, <<5681, 6188, 6958, 7476, 1>>, -31)
    [] lat = 85051 -> Double(FALSE, <<3970, 5444, 7032, 1591, 1>>, -28)
    [] lat = -85051 -> Double(TRUE, <<3970, 5444, 7032, 1591, 1>>, -28)
    [] lat = MaxLatitude -> Double(FALSE, <<1952, 3040, 7697, 1591, 1>>, -28)
    [] lat = -MaxLatitude -> Double(TRUE, <<1952, 3040, 7697, 1591, 1>>, -28)

\* CRS.project(latlng): the latitude clamped, never rejected
CRSproject(latlng) ==
  [x |-> NumberMultiply(NumberMultiply(earthRadius, Degrees(latlng.lng)),
                        NumberDivide(MathPI, NumberOf(180))),
   y |-> MercatorY(clampedLat(latlng.lat))]

\* Math.pow(2, k) for an integer k: the power itself
PowerOfTwo(k) == RoundToDouble(FALSE, <<1>>, k)

\* Math.SQRT2, the double nearest to the square root of 2, just above it
SqrtTwo == Double(FALSE, <<7117, 5113, 1945, 3393, 1>>, -52)

\* the two doubles next to the square root of 2: the one below it and Math.SQRT2
SqrtTwoNeighbours == {Double(FALSE, <<7116, 5113, 1945, 3393, 1>>, -52), SqrtTwo}

\* the Numbers Math.pow(2, z / ZoomDen) can return.  Math.pow gives an
\* implementation-approximated value: for a whole zoom the power itself, for a
\* zoom of k + 1/2 one of the two doubles next to 2^k times the square root of
\* 2 (the pow of fdlibm returns the lower one for k >= 1, a correctly rounded
\* pow the upper one)
MathPowValues(z) ==
  IF z % ZoomDen = 0 THEN {PowerOfTwo(z \div ZoomDen)}
  ELSE {RoundToDouble(FALSE, r.m, r.e + z \div ZoomDen) : r \in SqrtTwoNeighbours}

\* CRS.scale(zoom) = 256 * Math.pow(2, zoom), pow being Math.pow(2, zoom)
CRSscale(pow) == NumberMultiply(NumberOf(256), pow)

\* CRS.scale(zoom) / earthRadius
ScaleOverRadius(pow) == NumberDivide(CRSscale(pow), earthRadius)

\* Point.subtract, Point.multiplyBy(k) and Point.divideBy(k) on Numbers
subtractNumbers(p, q) ==
  [x |-> NumberSubtract(p.x, q.x), y |-> NumberSubtract(p.y, q.y)]

multiplyNumbers(p, k) == [x |-> NumberMultiply(p.x, k), y |-> NumberMultiply(p.y, k)]

divideNumbers(p, k) == [x |-> NumberDivide(p.x, k), y |-> NumberDivide(p.y, k)]

\* Map.project(latlng, zoom), pow being Math.pow(2, zoom)
MapProject(latlng, pow) == multiplyNumbers(CRSproject(latlng), ScaleOverRadius(pow))

\* project(center).subtract(getSize().divideBy(2)), with the projected center
\* taken for the difference
pixelOriginAtCenter(c, pow, w, h) == MapProject(c, pow)

\* the pixel origin setView(c, zoom) computes on a viewport of w x h pixels:
\* project(center).subtract(getSize().divideBy(2))
pixelOriginOfSetView(c, pow, w, h) ==
  subtractNumbers(MapProject(c, pow),
                  [x |-> NumberHalf(NumberOf(w)), y |-> NumberHalf(NumberOf(h))])

\* latLngToContainerPoint(latlng) of a map whose pixel origin is o:
\* project(latlng).subtract(this._pixelOrigin).round()
containerPointOf(latlng, pow, o) ==
  LET p == subtractNumbers(MapProject(latlng, pow), o)
  IN [x |-> NumberRound(p.x), y |-> NumberRound(p.y)]

(***************************************************************************)
(* The Map's view accessors, over a view: the map's center and zoom, its   *)
(* pixel origin (pixelOrigin in 1/Sub pixel and origin, the doubles), the   *)
(* container's size, pow = Math.pow(2, zoom) as the host computes it, and   *)
(* point, the methods of class Point.                                       *)
(***************************************************************************)
ViewOf(c, z, o, on, s, pow, point) ==
  [center |-> c, zoom |-> z, pixelOrigin |-> o, origin |-> on, size |-> s,
   pow |-> pow, point |-> point]

View(c, z, o, on, s) == ViewOf(c, z, o, on, s, mathPow[z], pointMethods)

\* getSize(): the container's current clientWidth and clientHeight
getSize(v) == Px(v.size.x, v.size.y)

\* getPixelBounds()
getPixelBounds(v) == Bounds(v.pixelOrigin, add(v.pixelOrigin, getSize(v)))

\* _getNewPixelOrigin(center, zoom)
getNewPixelOrigin(v, c, z) == subtract(project(c, z), divideBy(getSize(v), 2))

\* latLngToContainerPoint(latlng): whole pixels, kept in 1/Sub pixel
latLngToContainerPoint(v, latlng) ==
  LET p == containerPointOf(latlng, v.pow, v.origin)
  IN Px(Truncated(p.x), Truncated(p.y))

(***************************************************************************)
(* TileLayer.                                                              *)
(***************************************************************************)
TileSize == 256

\* _wrapX(x, zoom) without the second remainder: the sign of x survives
wrapXRemainderOnly(x, z) == JsRem(x, Pow2(z))

\* _wrapX(x, zoom)
wrapX(x, z) == JsRem(JsRem(x, Pow2(z)) + Pow2(z), Pow2(z))

\* the key `${wx}:${y}:${zoom}` of a tile: the three numbers, in that order
KeyOf(co) == <<co.x, co.y, co.z>>

\* the enumeration loop of _update: every x in nw.x..se.x, every y in nw.y..se.y
TilesToLoad(nw, se, z) ==
  LET coords == {[x |-> wrapX(x, z), y |-> y, z |-> z] :
                   x \in nw.x .. se.x, y \in nw.y .. se.y}
  IN [k \in {KeyOf(co) : co \in coords} |-> CHOOSE co \in coords : KeyOf(co) = k]

\* Point.floor, applied to p.divideBy(k): the class defines no such method;
\* these are the operations the design calls for
floorOfQuotient(p, k) == Point(p.x \div (k * Sub), p.y \div (k * Sub))

ceilOfQuotient(p, k) == Point(-((-p.x) \div (k * Sub)), -((-p.y) \div (k * Sub)))

(***************************************************************************)
(* Strings and _getTileUrl.  A string is the sequence of its characters.   *)
(***************************************************************************)
Digits == <<"0", "1", "2", "3", "4", "5", "6", "7", "8", "9">>

\* String(n) for an integer n >= 0
RECURSIVE DecimalOfNat(_)
DecimalOfNat(n) ==
  IF n < 10 THEN <<Digits[n + 1]>>
  ELSE Append(DecimalOfNat(n \div 10), Digits[(n % 10) + 1])

\* String(n) for an integer n
Decimal(n) == IF n < 0 THEN <<"-">> \o DecimalOfNat(-n) ELSE DecimalOfNat(n)

\* whether pat occurs in s at position i
OccursAt(s, pat, i) ==
  i + Len(pat) - 1 <= Len(s) /\ SubSeq(s, i, i + Len(pat) - 1) = pat

\* s.replace(pat, rep) for a string pattern: the first occurrence is replaced
ReplaceFirst(s, pat, rep) ==
  IF \E i \in 1 .. Len(s) : OccursAt(s, pat, i)
  THEN LET i == CHOOSE j \in 1 .. Len(s) :
                  OccursAt(s, pat, j) /\ \A k \in 1 .. j - 1 : ~OccursAt(s, pat, k)
       IN SubSeq(s, 1, i - 1) \o rep \o SubSeq(s, i + Len(pat), Len(s))
  ELSE s

PlaceholderX == <<"{", "x", "}">>

PlaceholderY == <<"{", "y", "}">>

PlaceholderZ == <<"{", "z", "}">>

\* _getTileUrl(coords) of a layer whose template is url
getTileUrl(url, coords) ==
  ReplaceFirst(ReplaceFirst(ReplaceFirst(url, PlaceholderX, Decimal(coords.x)),
                            PlaceholderY, Decimal(coords.y)),
               PlaceholderZ, Decimal(coords.z))

\* "https://x/{z}/{x}/{y}.png"
TemplateZXY ==
  <<"h", "t", "t", "p", "s", ":", "/", "/", "x", "/", "{", "z", "}", "/",
    "{", "x", "}", "/", "{", "y", "}", ".", "p", "n", "g">>

\* "{x}/{y}/{z}?x={x}"
TemplateXTwice ==
  <<"{", "x", "}", "/", "{", "y", "}", "/", "{", "z", "}", "?", "x", "=",
    "{", "x", "}">>

\* "/{z}/{z}/{y}{y}"
TemplateNoX == <<"/", "{", "z", "}", "/", "{", "z", "}", "/", "{", "y", "}", "{", "y", "}">>

\* "t.png"
TemplatePlain == <<"t", ".", "p", "n", "g">>

\* the <img> element _update creates for a tile of a layer with template url.
\* el is the identity of the element: the handlers of lines 401-402 close over
\* the element itself, and two elements of the same key, position and source
\* are still two elements
NewTile(url, co, el) ==
  [el |-> el, left |-> co.x * TileSize, top |-> co.y * TileSize,
   src |-> getTileUrl(url, co), loading |-> TRUE]

\* the image onerror puts in place of a tile that failed to load
Placeholder == <<"data:image/gif;base64,R0lGODlhAQABAAD/ACwAAAAAAQABAAACADs=">>

\* tile.onload = () => { tile.loading = false; }
onload(tile) == [tile EXCEPT !.loading = FALSE]

\* a handler that asks for the tile's own URL again
onerrorRetrying(tile) == [tile EXCEPT !.src = tile.src]

\* tile.onerror = () => { tile.src = <placeholder>; }
onerror(tile) == [tile EXCEPT !.src = Placeholder]

\* a completion that finds its tile by the key of its element
CompletedByKey(tiles, el, o) ==
  [k \in DOMAIN tiles |->
     IF k = el.el[2]
     THEN (IF o = "load" THEN onload(tiles[k]) ELSE onerror(tiles[k]))
     ELSE tiles[k]]

\* the tile table after the browser delivered the completion o ("load" or
\* "error") to the element el: the handler writes to the element it closes
\* over and to nothing else, so the table shows the change only where it still
\* holds that very element
Completed(tiles, el, o) ==
  [k \in DOMAIN tiles |->
     IF tiles[k].el = el.el
     THEN (IF o = "load" THEN onload(tiles[k]) ELSE onerror(tiles[k]))
     ELSE tiles[k]]

\* pending holds the elements whose image request is in flight, retired ones
\* included, and fetched counts, per element and source, the requests that
\* assigning the element's src has started
NoLayer ==
  [url |-> TemplateZXY, inRegistry |-> FALSE, map |-> FALSE, container |-> FALSE,
   tiles |-> <<>>, made |-> 0,
   transform |-> [offset |-> Point(0, 0), scaleExp |-> 0],
   pending |-> {}, fetched |-> <<>>]

\* the request counts after each of the elements els was given a source
Fetched(fetched, els) ==
  LET new == {<<t.el, t.src>> : t \in els}
  IN [q \in (DOMAIN fetched) \cup new |->
        (IF q \in DOMAIN fetched THEN fetched[q] ELSE 0)
          + (IF q \in new THEN 1 ELSE 0)]

NoChange(l) == [layer |-> l, added |-> {}, removed |-> {}, threw |-> FALSE]

TypeError(l) == [layer |-> l, added |-> {}, removed |-> {}, threw |-> TRUE]

\* the identity of the element that the n-th run of the addition loop creates
\* for key k
Element(n, k) == <<n, k>>

\* loops that make a new element for every key of tilesToLoad
ReconcileRecreating(l, tilesToLoad) ==
  [k \in DOMAIN tilesToLoad |-> NewTile(l.url, tilesToLoad[k], Element(l.made + 1, k))]

\* the two loops of _update over the tile table: the resident keys absent from
\* tilesToLoad are removed, the keys of tilesToLoad not resident get a new
\* element; l.made counts the runs of the loops so far
Reconcile(l, tilesToLoad) ==
  [k \in DOMAIN tilesToLoad |->
     IF k \in DOMAIN l.tiles THEN l.tiles[k]
     ELSE NewTile(l.url, tilesToLoad[k], Element(l.made + 1, k))]

\* the elements the addition loop creates: assigning src starts their requests
Created(l, tilesToLoad) ==
  {Reconcile(l, tilesToLoad)[k] : k \in (DOMAIN tilesToLoad) \ (DOMAIN l.tiles)}

\* the end of _update: the container's transform from the new pixel origin of the
\* rounded zoom z and the scale between z and the map's zoom
Reconciled(l, v, z, tilesToLoad) ==
  [layer |-> [l EXCEPT !.tiles = Reconcile(l, tilesToLoad),
                       !.made = l.made + 1,
                       !.pending = @ \cup Created(l, tilesToLoad),
                       !.fetched = Fetched(@, Created(l, tilesToLoad)),
                       !.transform =
                          [offset |-> multiplyBy(getNewPixelOrigin(v, v.center,
                                                                   z * ZoomDen), -1),
                           scaleExp |-> z * ZoomDen - v.zoom]],
   added |-> (DOMAIN tilesToLoad) \ (DOMAIN l.tiles),
   removed |-> (DOMAIN l.tiles) \ (DOMAIN tilesToLoad),
   threw |-> FALSE]

\* the tile index bounds of _update: nwTile and seTile
TileRange(bounds) ==
  [nw |-> floorOfQuotient(bounds.min, TileSize),
   se |-> ceilOfQuotient(bounds.max, TileSize)]

RequiredTiles(range, z) == TilesToLoad(range.nw, range.se, z)

\* _update(): the layer afterwards, the keys it added and removed, and whether
\* it threw.  Calling a method class Point lacks raises a TypeError.
TL_update(l, v) ==
  IF ~l.map THEN NoChange(l)
  ELSE IF ~({"floor", "ceil"} \subseteq v.point) THEN TypeError(l)
  ELSE Reconciled(l, v, MathRound(v.zoom, ZoomDen),
                  RequiredTiles(TileRange(getPixelBounds(v)),
                                MathRound(v.zoom, ZoomDen)))

(***************************************************************************)
(* Evented.off and Evented.fire.                                           *)
(***************************************************************************)
UndefinedArg == [kind |-> "undefined", str |-> <<>>, arr |-> <<>>]

StringArg(s) == [kind |-> "string", str |-> s, arr |-> <<>>]

ArrayArg(a) == [kind |-> "array", str |-> <<>>, arr |-> a]

\* the loop of off over the types ts from the i-th on: a member of
\* Object.prototype has no filter method, so filtering it raises a TypeError
\* before the assignment
RECURSIVE OffTypes(_, _, _, _)
OffTypes(e, ts, i, fn) ==
  IF i > Len(ts) THEN [ev |-> e, threw |-> FALSE]
  ELSE IF fn = Undefined THEN OffTypes(DeleteKey(e, ts[i]), ts, i + 1, fn)
  ELSE IF Listeners(e, ts[i]).kind = "object" THEN [ev |-> e, threw |-> TRUE]
  ELSE OffTypes(SetKey(e, ts[i],
                       SelectSeq(ListenerArray(e, ts[i]), LAMBDA l : l.fn # fn)),
                ts, i + 1, fn)

\* the decimal numeral of 2^32 - 2, the greatest array index
MaxArrayIndex == <<"4", "2", "9", "4", "9", "6", "7", "2", "9", "4">>

\* a < b for decimal numerals without leading zeros
NumeralLess(a, b) ==
  \/ Len(a) < Len(b)
  \/ /\ Len(a) = Len(b)
     /\ \E i \in DOMAIN a :
          /\ \A j \in 1 .. i - 1 : a[j] = b[j]
          /\ \E m, n \in DOMAIN Digits : m < n /\ Digits[m] = a[i] /\ Digits[n] = b[i]

\* whether the property name k is an array index: the decimal numeral, without
\* leading zeros, of an integer of 0 to 2^32 - 2
IsArrayIndex(k) ==
  /\ Len(k) >= 1
  /\ \A i \in DOMAIN k : \E m \in DOMAIN Digits : Digits[m] = k[i]
  /\ Len(k) = 1 \/ k[1] # "0"
  /\ ~NumeralLess(MaxArrayIndex, k)

\* Object.keys(this._events): the own keys that are array indices in ascending
\* numeric order, then the other own keys in the order they were created
ObjectKeys(e) ==
  SortSeq(SelectSeq(e.keys, IsArrayIndex), NumeralLess)
    \o SelectSeq(e.keys, LAMBDA k : ~IsArrayIndex(k))

\* off(types, fn): (types || Object.keys(this._events)).flat() raises a TypeError
\* for a non-empty string, which has no flat method
Off(e, ta, fn) ==
  IF ~e.defined THEN [ev |-> e, threw |-> FALSE]
  ELSE LET falsy == ta.kind = "undefined" \/ (ta.kind = "string" /\ ta.str = <<>>)
       IN IF ~falsy /\ ta.kind = "string" THEN [ev |-> e, threw |-> TRUE]
          ELSE OffTypes(e, IF falsy THEN ObjectKeys(e) ELSE ta.arr, 1, fn)

(***************************************************************************)
(* What each listener function does when invoked with the payload: the     *)
(* world [ev, layer] afterwards, whether it threw, and whether it replaced *)
(* or deleted the listener array of the type being fired.                  *)
(*   fA, fB, probe: change nothing       fAdd: target.on(type, fB)         *)
(*   fSelf: target.on(type, fSelf)       fOffArr: target.off([type], fA)   *)
(*   fOffStr: target.off(type, fA)       _update: TileLayer._update        *)
(***************************************************************************)
Quiet(w, e) == [ev |-> e, layer |-> w.layer, threw |-> FALSE, replaced |-> FALSE]

AfterOn(w, on) ==
  [ev |-> on.ev, layer |-> w.layer, threw |-> on.threw, replaced |-> FALSE]

AfterOff(w, off) ==
  [ev |-> off.ev, layer |-> w.layer, threw |-> off.threw, replaced |-> ~off.threw]

AfterUpdate(w, u) ==
  [ev |-> w.ev, layer |-> u.layer, threw |-> u.threw, replaced |-> FALSE]

CallListener(l, w, type, v) ==
  CASE l.fn \in {"fAdd", "fSelf"} ->
         AfterOn(w, On(w.ev, type, IF l.fn = "fAdd" THEN "fB" ELSE "fSelf", Undefined))
    [] l.fn \in {"fOffArr", "fOffStr"} ->
         AfterOff(w, Off(w.ev, IF l.fn = "fOffArr" THEN ArrayArg(<<type>>)
                                ELSE StringArg(type), "fA"))
    [] l.fn = "_update" -> AfterUpdate(w, TL_update(w.layer, v))
    [] OTHER -> Quiet(w, w.ev)

\* the steps a firing may take before the model calls it non-terminating: more
\* than any terminating firing over MaxListeners listeners takes
FireFuel == 2 * MaxListeners + 3

\* the entry the log keeps of one invocation: fn.call(ctx || this, data)
Invocation(l, type) ==
  [fn |-> l.fn, this |-> IF l.ctx = Undefined THEN Emitter ELSE l.ctx,
   type |-> type, target |-> Emitter]

FireResult(e, l, log, status) == [ev |-> e, layer |-> l, log |-> log, status |-> status]

(***************************************************************************)
(* for (const { fn, ctx } of listeners): the array iterator reads the      *)
(* array's length at every step, so it sees what on() pushes to that same  *)
(* array; `same` says whether this._events[type] still is the array being  *)
(* iterated (off replaces or deletes it).  FireStep is the loop after the  *)
(* call of listener i, r being what the call did.                          *)
(***************************************************************************)
RECURSIVE FireLoop(_, _, _, _, _, _, _, _)
RECURSIVE FireStep(_, _, _, _, _, _, _, _)
FireLoop(w, arr, same, i, log, type, v, fuel) ==
  IF i > Len(arr) THEN FireResult(w.ev, w.layer, log, "returned")
  ELSE IF fuel = 0 THEN FireResult(w.ev, w.layer, log, "diverged")
  ELSE FireStep(arr, same, i, Append(log, Invocation(arr[i], type)), type, v, fuel,
                CallListener(arr[i], w, type, v))

FireStep(arr, same, i, log, type, v, fuel, r) ==
  IF r.threw THEN FireResult(r.ev, r.layer, log, "threw")
  ELSE FireLoop([ev |-> r.ev, layer |-> r.layer],
                IF same /\ ~r.replaced THEN ListenerArray(r.ev, type) ELSE arr,
                same /\ ~r.replaced, i + 1, log, type, v, fuel - 1)

\* fire(type, data): the world afterwards, the invocation log and the outcome;
\* a member of Object.prototype is truthy and not iterable, so for...of raises
\* a TypeError
Fire(w, type, v) ==
  LET listeners == Listeners(w.ev, type)
  IN CASE listeners.kind = "undefined" -> FireResult(w.ev, w.layer, <<>>, "returned")
       [] listeners.kind = "object" -> FireResult(w.ev, w.layer, <<>>, "threw")
       [] OTHER -> FireLoop(w, listeners.arr, TRUE, 1, <<>>, type, v, FireFuel)

(***************************************************************************)
(* PosAnimation.  The object keeps _animId, _startPos, _offset, _startTime *)
(* and _duration; the model adds what the claims speak of: the number of   *)
(* the run, the position the run is to reach, whether the run began while  *)
(* another was in flight, whether it is still the latest call that moved   *)
(* the pane, and how often it fired 'end'.  A pending frame callback is    *)
(* [id, run]: the id the host gave it and the run that requested it.       *)
(***************************************************************************)
DefaultDuration == 250

LongDuration == 2 * DefaultDuration

ClockStep == DefaultDuration \div 2

NoAnim ==
  [exists |-> FALSE, animId |-> 0, startPos |-> Point(0, 0), offset |-> Point(0, 0),
   startTime |-> 0, duration |-> 0, run |-> 0, target |-> Point(0, 0),
   interrupted |-> FALSE, current |-> FALSE, ended |-> 0]

\* offset.multiplyBy(ease) with t = elapsed / duration and ease = 1 - (1 - t)^2,
\* elapsed and duration counted in clock steps
eased(offset, elapsed, duration) ==
  LET d == duration \div ClockStep
      e == elapsed \div ClockStep
      num == d * d - (d - e) * (d - e)
  IN Point((offset.x * num) \div (d * d), (offset.y * num) \div (d * d))

\* stop() that forgets the handle and leaves the pending callback with the host
stopWithoutCancel(a, fr) ==
  [anim |-> [a EXCEPT !.animId = 0], frames |-> fr]

\* stop(): cancel the pending frame callback, if any, and forget its id
stop(a, fr) ==
  IF a.animId # 0
  THEN [anim |-> [a EXCEPT !.animId = 0], frames |-> {f \in fr : f.id # a.animId}]
  ELSE [anim |-> a, frames |-> fr]

\* _animate() that requests a frame callback on every tick, the last included
animateAlwaysRearming(a, fr, id, t) ==
  IF t - a.startTime < a.duration
  THEN [anim |-> [a EXCEPT !.animId = id],
        pane |-> add(a.startPos, eased(a.offset, t - a.startTime, a.duration)),
        frames |-> fr \cup {[id |-> id, run |-> a.run]},
        nextId |-> id + 1]
  ELSE [anim |-> [a EXCEPT !.animId = id, !.ended = @ + 1],
        pane |-> add(a.startPos, a.offset),
        frames |-> fr \cup {[id |-> id, run |-> a.run]},
        nextId |-> id + 1]

\* _animate() at time t: the animation, the pane position, the pending frames
\* and the next frame id afterwards
animate(a, fr, id, t) ==
  IF t - a.startTime < a.duration
  THEN [anim |-> [a EXCEPT !.animId = id],
        pane |-> add(a.startPos, eased(a.offset, t - a.startTime, a.duration)),
        frames |-> fr \cup {[id |-> id, run |-> a.run]},
        nextId |-> id + 1]
  ELSE [anim |-> [a EXCEPT !.ended = @ + 1],
        pane |-> add(a.startPos, a.offset),
        frames |-> fr, nextId |-> id]

\* run(el, newPos, duration) at time t, the pane being at pos
run(a, fr, id, t, pos, newPos, duration) ==
  LET s == stop(a, fr)
      started == [s.anim EXCEPT !.exists = TRUE, !.startPos = pos,
                                !.offset = subtract(newPos, pos),
                                !.startTime = t, !.duration = duration,
                                !.run = a.run + 1, !.target = newPos,
                                !.interrupted = (a.run > 0 /\ a.animId # 0
                                                 /\ \E f \in fr : f.id = a.animId),
                                !.current = TRUE, !.ended = 0]
  IN animate(started, s.frames, id, t)

(***************************************************************************)
(* The Map.                                                                *)
(***************************************************************************)
MoveEndType == <<"m", "o", "v", "e", "e", "n", "d">>

DefaultCenter == Origin

DefaultZoom == 1 * ZoomDen

Sizes == {Point(600, 400), Point(800, 400)}

LatLngs == {Origin, London}

Offsets == {Point(100, 0), Point(-40, 60)}

Durations == {DefaultDuration, LongDuration, 0}

Zooms == 0 .. MaxZoom

\* the hosts: what Math.pow(2, zoom) returns for each zoom
MathPows ==
  {f \in [Zooms -> UNION {MathPowValues(z) : z \in Zooms}] :
     \A z \in Zooms : f[z] \in MathPowValues(z)}

\* the Numbers Math.pow(2, zoom) returns on some host for some zoom
HostPows == UNION {MathPowValues(z) : z \in Zooms}

\* the pixel origin setView(c, zoom) computes for every center and container
\* size, pow being Math.pow(2, zoom): the values are computed once
OriginsOfSetView ==
  [pow \in HostPows, c \in LatLngs, s \in Sizes |->
     pixelOriginOfSetView(c, pow, s.x, s.y)]

\* the methods class TileLayer defines; _updateLayers calls layer.update if it exists
TileLayerMethods ==
  {"onAdd", "onRemove", "_clearTiles", "_getTileUrl", "_wrapX", "_update",
   "addTo", "remove", "on", "off", "fire"}

CurrentView == View(center, zoom, pixelOrigin, pixelOriginNumber, size)

\* the record of an operation: its name, whether it threw, the pans so far, and
\* the tile keys its call of _update added and removed (none if it made no call)
Did(op, threw, pans) ==
  [op |-> op, threw |-> threw, pans |-> pans, added |-> {}, removed |-> {},
   offset |-> Point(0, 0)]

NotSeen ==
  [valid |-> FALSE, op |-> "none", origin |-> Point(0, 0), pane |-> Point(0, 0),
   finalPane |-> Point(0, 0)]

\* what a probe listener of moveend reads when it is invoked
Observation(op, origin, pane, finalPane) ==
  [valid |-> TRUE, op |-> op, origin |-> origin, pane |-> pane, finalPane |-> finalPane]

Probed(f) == \E i \in DOMAIN f.log : f.log[i].fn = "probe"

\* _updateLayers(): layer.update() for every registered layer that has one
updateLayers(l, v) ==
  IF l.inRegistry /\ "update" \in TileLayerMethods THEN TL_update(l, v)
  ELSE [layer |-> l, added |-> {}, removed |-> {}, threw |-> FALSE]

\* the record kept of a fire() call
Fired(type, e, f) ==
  [type |-> type, snapshot |-> ListenerArray(e, type), had |-> HasKey(e, type),
   log |-> f.log, status |-> f.status]

NotFired ==
  [type |-> <<>>, snapshot |-> <<>>, had |-> FALSE, log |-> <<>>, status |-> "none"]

\* the end of an operation that fired moveend: f is what the firing did
MoveEndFired(op, offset, origin, pane, finalPane, pans, f) ==
  /\ ev' = f.ev
  /\ layer' = f.layer
  /\ lastFire' = Fired(MoveEndType, ev, f)
  /\ seen' = IF Probed(f) THEN Observation(op, origin, pane, finalPane) ELSE NotSeen
  /\ last' = [Did(op, f.status = "threw", pans) EXCEPT !.offset = offset]

\* _resetView() after _updateLayers() did u: moveend is fired unless a layer's
\* update hook threw
LayersUpdated(op, v, u) ==
  IF u.threw
  THEN /\ ev' = ev
       /\ layer' = u.layer
       /\ lastFire' = NotFired
       /\ seen' = NotSeen
       /\ last' = Did(op, TRUE, last.pans)
  ELSE MoveEndFired(op, Point(0, 0), v.pixelOrigin, Point(0, 0), Point(0, 0), last.pans,
                    Fire([ev |-> ev, layer |-> u.layer], MoveEndType, v))

\* _resetView(): the pane to (0, 0), the layers' update hooks, then moveend
resetView(op, v) ==
  /\ center' = v.center
  /\ zoom' = v.zoom
  /\ pixelOrigin' = v.pixelOrigin
  /\ pixelOriginNumber' = v.origin
  /\ panePos' = Point(0, 0)
  /\ anim' = [anim EXCEPT !.current = FALSE]
  /\ LayersUpdated(op, v, updateLayers(layer, v))
  /\ UNCHANGED <<mathPow, pointMethods, pure, lastOn, lastOff, size, frames, nextId, now>>

\* the pixel origin setView computes for center c and zoom z
NewOrigin(c, z) == subtract(project(c, z), divideBy(getSize(CurrentView), 2))

\* setView(latlng, zoom)
SetViewTo(op, c, z) ==
  resetView(op, View(c, z, NewOrigin(c, z), OriginsOfSetView[mathPow[z], c, size], size))

SetView == \E c \in LatLngs, z \in Zooms : SetViewTo("setView", c, z)

SetZoom == \E z \in Zooms : SetViewTo("setView", center, z)

\* zoomIn(delta = 1)
ZoomIn == zoom + ZoomDen \in Zooms /\ SetViewTo("setView", center, zoom + ZoomDen)

\* zoomOut(delta = 1)
ZoomOut == zoom - ZoomDen \in Zooms /\ SetViewTo("setView", center, zoom - ZoomDen)

\* the pane set at once to newPos: the animation object is not touched
SetAtOnce(newPos) ==
  [anim |-> [anim EXCEPT !.current = FALSE], pane |-> newPos, frames |-> frames,
   nextId |-> nextId]

\* panBy(offset) after the pane was moved or the animation started (r): moveend
Panned(op, offset, newPos, r) ==
  /\ panePos' = r.pane
  /\ anim' = r.anim
  /\ frames' = r.frames
  /\ nextId' = r.nextId
  /\ MoveEndFired(op, offset, pixelOrigin, r.pane, newPos, last.pans + 1,
                  Fire([ev |-> ev, layer |-> layer], MoveEndType, CurrentView))
  /\ UNCHANGED <<mathPow, pointMethods, pixelOriginNumber, pure, lastOn, lastOff, center, zoom, pixelOrigin, size, now>>

\* the pane position plus the offset
PanTargetAdded(offset) == add(panePos, offset)

\* the position panBy(offset) is to bring the pane to
PanTarget(offset) == subtract(panePos, offset)

\* panBy(offset, options): options.animate !== false starts the animation,
\* otherwise the pane is set at once; then moveend
PanByOffset(op, offset, animated, duration) ==
  /\ last.pans < MaxPans
  /\ animated => nextId <= MaxFrames
  /\ Panned(op, offset, PanTarget(offset),
            IF animated
            THEN run(anim, frames, nextId, now, panePos, PanTarget(offset), duration)
            ELSE SetAtOnce(PanTarget(offset)))

PanBy ==
  \E o \in Offsets, animated \in BOOLEAN, d \in Durations :
    /\ ~animated => d = DefaultDuration
    /\ PanByOffset(IF animated THEN "panByAnimated" ELSE "panBy",
                   multiplyBy(o, Sub), animated, d)

\* latLngToContainerPoint(latlng) for every pixel origin of the map: the
\* values are computed once and looked up by pow, pixel origin and latlng
ContainerPoints ==
  [pow \in HostPows, on \in {OriginsOfSetView[k] : k \in DOMAIN OriginsOfSetView},
   latlng \in LatLngs |->
     latLngToContainerPoint(ViewOf(DefaultCenter, DefaultZoom, Point(0, 0), on,
                                   Point(600, 400), pow, PointMethods),
                            latlng)]

\* panTo(latlng, options)
PanTo ==
  \E ll \in LatLngs, animated \in BOOLEAN :
    LET from == ContainerPoints[CurrentView.pow, pixelOriginNumber, center]
        to == ContainerPoints[CurrentView.pow, pixelOriginNumber, ll]
    IN PanByOffset(IF animated THEN "panByAnimated" ELSE "panBy",
                   subtract(to, from), animated, DefaultDuration)

\* the frame callback ran _animate() at time t: r is what it did
Animated(t, r) ==
  /\ now' = t
  /\ anim' = r.anim
  /\ panePos' = r.pane
  /\ frames' = r.frames
  /\ nextId' = r.nextId
  /\ lastFire' = NotFired
  /\ seen' = NotSeen
  /\ last' = Did("frame", FALSE, last.pans)
  /\ UNCHANGED <<mathPow, pointMethods, pixelOriginNumber, pure, ev, lastOn, lastOff, center, zoom, pixelOrigin, size, layer>>

\* the host runs a pending frame callback, some clock steps after it was requested
Frame ==
  \E f \in frames, steps \in 1 .. 2 :
    /\ now + steps * ClockStep <= MaxClockTicks * ClockStep
    /\ nextId <= MaxFrames
    /\ Animated(now + steps * ClockStep,
                animate(anim, frames \ {f}, nextId, now + steps * ClockStep))

\* the container is resized: clientWidth and clientHeight change
Resize ==
  \E s \in Sizes \ {size} :
    /\ size' = s
    /\ lastFire' = NotFired
    /\ seen' = NotSeen
    /\ last' = Did("resize", FALSE, last.pans)
    /\ UNCHANGED <<mathPow, pointMethods, pixelOriginNumber, pure, ev, lastOn, lastOff, center, zoom, pixelOrigin, panePos, anim, frames,
                   nextId, now, layer>>

\* map.on('moveend', probe)
MapOn ==
  /\ Len(ListenerArray(ev, MoveEndType)) < MaxProbes
  /\ ev' = On(ev, MoveEndType, "probe", Undefined).ev
  /\ lastFire' = NotFired
  /\ seen' = NotSeen
  /\ last' = Did("on", FALSE, last.pans)
  /\ UNCHANGED <<mathPow, pointMethods, pixelOriginNumber, pure, lastOn, lastOff, center, zoom, pixelOrigin, size, panePos, anim, frames,
                 nextId, now, layer>>

\* the record of an operation whose call of _update() did u
Diffed(op, u) ==
  [op |-> op, threw |-> u.threw, pans |-> last.pans, added |-> u.added,
   removed |-> u.removed]

\* onAdd after its call of _update() did u: the subscription to moveend follows
\* unless _update threw
Attached(u) ==
  /\ layer' = u.layer
  /\ ev' = IF u.threw THEN ev ELSE On(ev, MoveEndType, "_update", "layer").ev
  /\ last' = Diffed("addLayer", u)
  /\ lastFire' = NotFired
  /\ seen' = NotSeen
  /\ UNCHANGED <<mathPow, pointMethods, pixelOriginNumber, pure, lastOn, lastOff, center, zoom, pixelOrigin, size, panePos, anim, frames,
                 nextId, now>>

\* addLayer(layer) with TileLayer.onAdd(map): the registry entry, the container,
\* an empty tile table, _update(), and then the subscription to moveend
AddLayer ==
  Attached(TL_update([layer EXCEPT !.inRegistry = TRUE, !.map = TRUE,
                                   !.container = TRUE, !.tiles = <<>>],
                     CurrentView))

\* layer._update() returned or threw (u).  A call that directly follows another
\* call of _update finds the viewport exactly as that call found it.
Updated(u) ==
  /\ layer' = u.layer
  /\ last' = Diffed(IF last.op \in {"_update", "_updateAgain"} THEN "_updateAgain"
                    ELSE "_update", u)
  /\ lastFire' = NotFired
  /\ seen' = NotSeen
  /\ UNCHANGED <<mathPow, pointMethods, pixelOriginNumber, pure, ev, lastOn, lastOff, center, zoom, pixelOrigin, size, panePos,
                 anim, frames, nextId, now>>

\* the application calls layer._update()
Update == Updated(TL_update(layer, CurrentView))

\* the layer after onRemove ran to its end: the container removed, the tile
\* table cleared, _map deleted; and after removeLayer deleted it from _layers
Detached(l) ==
  [l EXCEPT !.inRegistry = FALSE, !.map = FALSE, !.container = FALSE, !.tiles = <<>>]

\* removeLayer after onRemove's call of this._map.off('moveend', this._update, this)
\* did r: if off threw, onRemove and removeLayer end there
Removed(r) ==
  /\ ev' = r.ev
  /\ layer' = IF r.threw THEN layer ELSE Detached(layer)
  /\ last' = Did("removeLayer", r.threw, last.pans)
  /\ lastFire' = NotFired
  /\ seen' = NotSeen
  /\ UNCHANGED <<mathPow, pointMethods, pixelOriginNumber, pure, lastOn, lastOff, center, zoom, pixelOrigin, size, panePos, anim,
                 frames, nextId, now>>

\* removeLayer(layer) of a layer this._layers holds, with TileLayer.onRemove()
RemoveLayer ==
  /\ layer.inRegistry
  /\ Removed(Off(ev, StringArg(MoveEndType), "_update"))

NoCall == [types |-> <<>>, fn |-> Undefined, ctx |-> Undefined, threw |-> FALSE]

NoPure == [fn |-> "none", x |-> 0, y |-> 0, z |-> 0, wx |-> 0, tiles |-> <<>>]

NoOff == [arg |-> UndefinedArg, fn |-> Undefined, threw |-> FALSE]

InitObjects ==
  /\ ev = NoEvents
  /\ lastOn = NoCall
  /\ lastOff = NoOff
  /\ lastFire = NotFired
  /\ center = DefaultCenter
  /\ zoom = DefaultZoom
  /\ size = Point(600, 400)
  /\ pixelOrigin = subtract(project(DefaultCenter, DefaultZoom),
                            divideBy(Px(size.x, size.y), 2))
  /\ panePos = Point(0, 0)
  /\ anim = NoAnim
  /\ frames = {}
  /\ nextId = 1
  /\ now = 0
  /\ layer = NoLayer
  /\ last = Did("construct", FALSE, 0)
  /\ seen = NotSeen

\* the host whose Math.pow is correctly rounded, and class Point as it is
RoundedPow ==
  [z \in Zooms |->
     IF z % ZoomDen = 0 THEN PowerOfTwo(z \div ZoomDen)
     ELSE RoundToDouble(FALSE, SqrtTwo.m, SqrtTwo.e + z \div ZoomDen)]

\* the host the map is constructed on: its Math.pow from pows, its class Point
\* from points; the constructor's setView computes the pixel origin with them
InitHost(pows, points) ==
  /\ mathPow \in pows
  /\ pointMethods \in points
  /\ pixelOriginNumber = OriginsOfSetView[mathPow[DefaultZoom], DefaultCenter, size]

RoundedHost == InitHost({RoundedPow}, {PointMethods})

\* a map on any host, class Point as it is
Init ==
  /\ InitObjects
  /\ pure = NoPure
  /\ InitHost(MathPows, {PointMethods})

(***************************************************************************)
(* Spec: the Map's view operations and the tile layer; the pane moves by   *)
(* panTo (which calls panBy) and the host delivers no animation frame.     *)
(* SpecPan: panBy with every option, panTo and the animation frames, the   *)
(* view being set again as it is.                                          *)
(***************************************************************************)
\* setView(getCenter(), getZoom()): the view set again as it is
ResetView == SetViewTo("setView", center, zoom)

NextPan ==
  \/ PanBy
  \/ PanTo
  \/ Frame
  \/ ResetView
  \/ MapOn

SpecPan == Init /\ [][NextPan]_vars

Next ==
  \/ SetView
  \/ SetZoom
  \/ ZoomIn
  \/ ZoomOut
  \/ PanTo
  \/ Resize
  \/ MapOn
  \/ AddLayer
  \/ RemoveLayer
  \/ Update

Spec == Init /\ [][Next]_vars

(***************************************************************************)
(* SpecTiles: the tile layer with the completions of its image requests,   *)
(* on a host whose class Point is the one of the source, and on one whose   *)
(* class Point also provides the floor and ceil that _update calls.         *)
(***************************************************************************)
MaxUpdates == 3
MaxCompletions == 2

\* class Point with the two methods _update calls on it
PointWithFloorAndCeil == PointMethods \cup {"floor", "ceil"}

\* the layer after the browser delivered the completion o of the request of
\* the element r: the handler runs on that element; onerror's assignment of
\* src starts a request of its own
Delivered(l, r, o) ==
  LET after == IF o = "load" THEN onload(r) ELSE onerror(r)
  IN [l EXCEPT !.tiles = Completed(l.tiles, r, o),
               !.pending = (@ \ {r}) \cup (IF o = "error" THEN {after} ELSE {}),
               !.fetched = IF o = "error" THEN Fetched(@, {after}) ELSE @]

\* the browser delivers load or error to an element whose request is in flight
TileCompletes ==
  \E r \in layer.pending, o \in {"load", "error"} :
    /\ now + ClockStep <= MaxCompletions * ClockStep
    /\ now' = now + ClockStep
    /\ layer' = Delivered(layer, r, o)
    /\ last' = [op |-> o, threw |-> FALSE, pans |-> last.pans, added |-> {},
                removed |-> {}, el |-> r.el]
    /\ UNCHANGED <<mathPow, pointMethods, pixelOriginNumber, pure, ev, lastOn, lastOff, lastFire, seen,
                   center, zoom, pixelOrigin, size, panePos, anim, frames, nextId>>

\* the zoom of the views set: the whole map in one tile column
TileZooms == {0}

TilesSetView ==
  /\ layer.made < MaxUpdates
  /\ \E c \in LatLngs, z \in TileZooms : SetViewTo("setView", c, z)

TilesAddLayer == layer.made < MaxUpdates /\ ~layer.inRegistry /\ AddLayer

TilesUpdate == layer.made < MaxUpdates /\ Update

NextTiles ==
  \/ TilesSetView
  \/ TilesAddLayer
  \/ TilesUpdate
  \/ TileCompletes

InitTiles ==
  /\ InitObjects
  /\ pure = NoPure
  /\ InitHost({RoundedPow}, {PointMethods, PointWithFloorAndCeil})

SpecTiles == InitTiles /\ [][NextTiles]_vars

(***************************************************************************)
(* SpecEvented: an Evented object of its own, with listeners that call on  *)
(* and off of the emitter while it fires.                                  *)
(***************************************************************************)
TypeA == <<"a">>

\* a type whose name is an array index: Object.keys lists it before the others
TypeIndex == <<"1">>

\* a type that names a member of Object.prototype
TypeConstructor == <<"c", "o", "n", "s", "t", "r", "u", "c", "t", "o", "r">>

TypeLists ==
  {TypeA, TypeIndex, <<"a", " ", "1">>, TypeConstructor,
   <<"a", " ">> \o TypeConstructor \o <<" ", "1">>}

\* the listeners a caller registers: the function and its context
UserListeners ==
  {[fn |-> "fA", ctx |-> Undefined], [fn |-> "fA", ctx |-> "ctx1"],
   [fn |-> "fAdd", ctx |-> Undefined], [fn |-> "fSelf", ctx |-> Undefined],
   [fn |-> "fOffArr", ctx |-> Undefined], [fn |-> "fOffStr", ctx |-> Undefined]}

OffArgs ==
  {UndefinedArg, StringArg(<<>>), StringArg(TypeA), ArrayArg(<<TypeA>>),
   ArrayArg(<<TypeA, TypeIndex>>), ArrayArg(<<TypeConstructor>>)}

OffFns == {Undefined, "fA"}

RECURSIVE TotalOver(_, _)
TotalOver(e, ts) ==
  IF ts = {} THEN 0
  ELSE LET t == CHOOSE x \in ts : TRUE
       IN Len(e.reg[t]) + TotalOver(e, ts \ {t})

TotalListeners(e) == TotalOver(e, DOMAIN e.reg)

Called(op) == Did(op, FALSE, last.pans)

OnDone(types, l, r) ==
  /\ ev' = r.ev
  /\ lastOn' = [types |-> types, fn |-> l.fn, ctx |-> l.ctx, threw |-> r.threw]
  /\ last' = [Called("on") EXCEPT !.threw = r.threw]

\* emitter.on(types, fn, ctx)
EvOn ==
  \E types \in TypeLists, l \in UserListeners :
    /\ TotalListeners(ev) + Len(Split(types)) <= MaxListeners
    /\ OnDone(types, l, On(ev, types, l.fn, l.ctx))
    /\ lastOff' = NoOff
    /\ lastFire' = NotFired
    /\ UNCHANGED <<mathPow, pointMethods, pixelOriginNumber, pure, center, zoom, pixelOrigin, size, panePos, anim, frames,
                   nextId, now, layer, seen>>

OffDone(ta, fn, r) ==
  /\ ev' = r.ev
  /\ lastOff' = [arg |-> ta, fn |-> fn, threw |-> r.threw]
  /\ last' = [Called("off") EXCEPT !.threw = r.threw]
  /\ lastOn' = NoCall
  /\ lastFire' = NotFired
  /\ UNCHANGED <<mathPow, pointMethods, pixelOriginNumber, pure, center, zoom, pixelOrigin, size, panePos, anim, frames, nextId, now,
                 layer, seen>>

\* emitter.off(types, fn)
EvOff == \E ta \in OffArgs, fn \in OffFns : OffDone(ta, fn, Off(ev, ta, fn))

FireDone(type, f) ==
  /\ ev' = f.ev
  /\ lastFire' = Fired(type, ev, f)
  /\ last' = [Called("fire") EXCEPT !.threw = (f.status = "threw")]
  /\ lastOn' = NoCall
  /\ lastOff' = NoOff
  /\ UNCHANGED <<mathPow, pointMethods, pixelOriginNumber, pure, center, zoom, pixelOrigin, size, panePos, anim,
                 frames, nextId, now, layer, seen>>

\* emitter.fire(type)
EvFire ==
  \E type \in {TypeA, TypeIndex, TypeConstructor} :
    /\ TotalListeners(ev) <= MaxListeners
    /\ FireDone(type, Fire([ev |-> ev, layer |-> layer], type, CurrentView))

NextEvented ==
  \/ EvOn
  \/ EvOff
  \/ EvFire

InitEvented == InitObjects /\ RoundedHost /\ pure = NoPure

SpecEvented == InitEvented /\ [][NextEvented]_vars

(***************************************************************************)
(* SpecWrap: _wrapX and the enumeration loop of _update as functions of    *)
(* their inputs.  The initial states hold the inputs: a tile column x, a   *)
(* tile row y and an integer zoom z (the zoom _update passes is            *)
(* Math.round(getZoom())); a step applies one of the two.                  *)
(***************************************************************************)
WrapInputs ==
  {[fn |-> "input", x |-> x, y |-> y, z |-> z, wx |-> 0, tiles |-> <<>>] :
     x \in -MaxTileX .. MaxTileX, y \in -1 .. 1, z \in 0 .. MaxWrapZoom}

InitWrap == InitObjects /\ RoundedHost /\ pure \in WrapInputs

\* layer._wrapX(x, z)
WrapXCall ==
  /\ pure.fn = "input"
  /\ pure' = [pure EXCEPT !.fn = "_wrapX", !.wx = wrapX(pure.x, pure.z)]
  /\ UNCHANGED <<mathPow, pointMethods, pixelOriginNumber, ev, lastOn, lastOff, lastFire, center, zoom, pixelOrigin, size,
                 panePos, anim, frames, nextId, now, layer, last, seen>>

\* the enumeration loop of _update from nwTile = (x, y) to seTile = (x + EnumWidth, y + 1)
EnumerateTiles ==
  /\ pure.fn = "input"
  /\ pure' = [pure EXCEPT !.fn = "tilesToLoad",
                          !.tiles = TilesToLoad(Point(pure.x, pure.y),
                                                Point(pure.x + EnumWidth, pure.y + 1),
                                                pure.z)]
  /\ UNCHANGED <<mathPow, pointMethods, pixelOriginNumber, ev, lastOn, lastOff, lastFire, center, zoom, pixelOrigin, size,
                 panePos, anim, frames, nextId, now, layer, last, seen>>

NextWrap ==
  \/ WrapXCall
  \/ EnumerateTiles

SpecWrap == InitWrap /\ [][NextWrap]_vars

(***************************************************************************)
(* SpecUrl: _getTileUrl as a function of the URL template and the tile     *)
(* coordinates.                                                            *)
(***************************************************************************)
UrlTemplates == {TemplateZXY, TemplateXTwice, TemplateNoX, TemplatePlain}

UrlInputs ==
  {[fn |-> "input", template |-> t, x |-> x, y |-> y, z |-> z, url |-> <<>>] :
     t \in UrlTemplates, x \in {0, 3, 12}, y \in {-1, 5, 10}, z \in {0, 4}}

InitUrl == InitObjects /\ RoundedHost /\ pure \in UrlInputs

\* new TileLayer(template)._getTileUrl({ x, y, z })
GetTileUrl ==
  /\ pure.fn = "input"
  /\ pure' = [pure EXCEPT !.fn = "_getTileUrl",
                          !.url = getTileUrl(pure.template,
                                             [x |-> pure.x, y |-> pure.y, z |-> pure.z])]
  /\ UNCHANGED <<mathPow, pointMethods, pixelOriginNumber, ev, lastOn, lastOff, lastFire, center, zoom, pixelOrigin, size,
                 panePos, anim, frames, nextId, now, layer, last, seen>>

NextUrl == GetTileUrl

SpecUrl == InitUrl /\ [][NextUrl]_vars

(***************************************************************************)
(* SpecCenter: setView on a viewport of any size, at any zoom, then        *)
(* latLngToContainerPoint of the center, in Numbers.                       *)
(***************************************************************************)
NewYork == LatLng(40713, -74006)

Sydney == LatLng(-33869, 151209)

\* the north-east corner of the projection: latitude 85.051, longitude 180
NorthEast == LatLng(85051, 180000)

MaxCenterZoom == 20

Centers == {Origin, London, NewYork, Sydney, NorthEast}

ViewportSizes == {Point(600, 400), Point(601, 400), Point(375, 667), Point(1023, 767)}

\* zooms of k + 1/2, in 1/ZoomDen zoom levels: 0.5, 3.5, 12.5 and 18.5
FractionalZooms == {1, 7, 25, 37}

\* zooms at which the pixel origin reaches 2^52 and more, and one at which
\* CRS.scale overflows: 42, 43, 44.5, 45, 47, 60 and 1020
LargeZooms == {84, 86, 89, 90, 94, 120, 2040}

\* the zooms given to setView, in 1/ZoomDen zoom levels: the whole zooms up to
\* MaxCenterZoom, zoom -1, and the fractional and large zooms
CenterZooms ==
  {z * ZoomDen : z \in -1 .. MaxCenterZoom} \cup FractionalZooms \cup LargeZooms

NoNumberPoint == [x |-> Double(FALSE, <<>>, 0), y |-> Double(FALSE, <<>>, 0)]

\* a center, a zoom with the Number the host's Math.pow(2, zoom) returns for
\* it, and the size of the container
CenterInputs ==
  UNION {[fn : {"input"}, c : Centers, z : {z}, pow : MathPowValues(z),
          size : ViewportSizes, origin : {NoNumberPoint}, at : {NoNumberPoint}] :
           z \in CenterZooms}

InitCenter == InitObjects /\ RoundedHost /\ pure \in CenterInputs

\* setView(c, z) on a map whose container has the size drawn
CenterSetView ==
  /\ pure.fn = "input"
  /\ pure' = [pure EXCEPT !.fn = "setView",
                          !.origin = pixelOriginOfSetView(pure.c, pure.pow,
                                                          pure.size.x, pure.size.y)]
  /\ UNCHANGED <<mathPow, pointMethods, pixelOriginNumber, ev, lastOn, lastOff, lastFire, center, zoom,
                 pixelOrigin, size, panePos, anim, frames, nextId, now, layer, last,
                 seen>>

\* latLngToContainerPoint(c) for the center c just set
CenterLocate ==
  /\ pure.fn = "setView"
  /\ pure' = [pure EXCEPT !.fn = "latLngToContainerPoint",
                          !.at = containerPointOf(pure.c, pure.pow, pure.origin)]
  /\ UNCHANGED <<mathPow, pointMethods, pixelOriginNumber, ev, lastOn, lastOff, lastFire, center, zoom,
                 pixelOrigin, size, panePos, anim, frames, nextId, now, layer, last,
                 seen>>

NextCenter ==
  \/ CenterSetView
  \/ CenterLocate

SpecCenter == InitCenter /\ [][NextCenter]_vars

(***************************************************************************)
(* SpecLatLng: the LatLng constructor and setView on JavaScript values.    *)
(* A value is a Number, a string, undefined or null.                       *)
(***************************************************************************)
JsNumber(x) == [type |-> "number", num |-> x, str |-> <<>>]

JsString(s) == [type |-> "string", num |-> NaN, str |-> s]

JsUndefined == [type |-> "undefined", num |-> NaN, str |-> <<>>]

JsNull == [type |-> "null", num |-> NaN, str |-> <<>>]

\* Natural numbers of any size.  A pass over the limbs is cut into blocks of
\* LimbsPerBlock, and what a block hands on is bound to its value before the
\* next one starts.
LimbsPerBlock == 10

\* one limb of n * c + carry, for c and carry below 2^17
TimesStep(st, limb, c) ==
  [out |-> Append(st.out, (limb * c + st.carry) % LimbBase),
   carry |-> (limb * c + st.carry) \div LimbBase]

RECURSIVE TimesRun(_, _, _, _, _)
TimesRun(st0, n, c, i0, j) ==
  IF i0 > j THEN st0
  ELSE CHOOSE r \in {TimesRun(TimesStep(st, n[i], c), n, c, i + 1, j) :
                      st \in {st0}, i \in {i0}} : TRUE

RECURSIVE TimesBlocks(_, _, _, _)
TimesBlocks(st0, n, c, i0) ==
  IF i0 > Len(n) THEN st0
  ELSE CHOOSE r \in {TimesBlocks(st, n, c, i0 + LimbsPerBlock) :
                      st \in {TimesRun(st0, n, c, i0,
                                       Min(i0 + LimbsPerBlock - 1, Len(n)))}} : TRUE

\* n * c + d
TimesSmall(n0, c, d) ==
  CHOOSE r \in {Trim(st.out \o <<st.carry % LimbBase, st.carry \div LimbBase>>) :
                 st \in {TimesBlocks([out |-> <<>>, carry |-> d], n, c, 1) :
                         n \in {n0}}} : TRUE

\* one limb of the quotient of n by c, from the highest limb down, c < 2^17
OverStep(st, limb, c) ==
  [out |-> <<(st.rem * LimbBase + limb) \div c>> \o st.out,
   rem |-> (st.rem * LimbBase + limb) % c]

RECURSIVE OverRun(_, _, _, _, _)
OverRun(st0, n, c, i0, j) ==
  IF i0 < j THEN st0
  ELSE CHOOSE r \in {OverRun(OverStep(st, n[i], c), n, c, i - 1, j) :
                      st \in {st0}, i \in {i0}} : TRUE

RECURSIVE OverBlocks(_, _, _, _)
OverBlocks(st0, n, c, i0) ==
  IF i0 < 1 THEN st0
  ELSE CHOOSE r \in {OverBlocks(st, n, c, i0 - LimbsPerBlock) :
                      st \in {OverRun(st0, n, c, i0,
                                      Max(i0 - LimbsPerBlock + 1, 1))}} : TRUE

\* the quotient of n by c and whether anything is left over
OverSmall(n0, c) ==
  CHOOSE r \in {[q |-> Trim(st.out), left |-> st.rem # 0] :
                 st \in {OverBlocks([out |-> <<>>, rem |-> 0], n, c, Len(n)) :
                         n \in {n0}}} : TRUE

\* A numeral is read in chunks of digits, each small enough for one pass.
PassesPerBlock == 10

DigitsPerChunk(radix) ==
  CASE radix = 10 -> 4
    [] radix = 16 -> 4
    [] radix = 8 -> 5
    [] radix = 2 -> 16

RECURSIVE PowerOf(_, _)
PowerOf(radix, n) == IF n = 0 THEN 1 ELSE radix * PowerOf(radix, n - 1)

\* the value of the digits ds[i .. j]
RECURSIVE ChunkValue(_, _, _, _)
ChunkValue(radix, ds, i, j) ==
  IF i > j THEN 0 ELSE radix * ChunkValue(radix, ds, i, j - 1) + ds[j]

\* chunk c of ds, whose length is a multiple of the chunk's
ChunkOf(radix, ds, c) ==
  ChunkValue(radix, ds, (c - 1) * DigitsPerChunk(radix) + 1, c * DigitsPerChunk(radix))

RECURSIVE ChunksRun(_, _, _, _, _)
ChunksRun(n0, radix, ds, c0, upto) ==
  IF c0 > upto THEN n0
  ELSE CHOOSE r \in {ChunksRun(n, radix, ds, c0 + 1, upto) :
                      n \in {TimesSmall(n0, PowerOf(radix, DigitsPerChunk(radix)),
                                        ChunkOf(radix, ds, c0))}} : TRUE

RECURSIVE ChunksBlocks(_, _, _, _, _)
ChunksBlocks(n0, radix, ds, c0, upto) ==
  IF c0 > upto THEN n0
  ELSE CHOOSE r \in {ChunksBlocks(n, radix, ds, c0 + PassesPerBlock, upto) :
                      n \in {ChunksRun(n0, radix, ds, c0,
                                       Min(c0 + PassesPerBlock - 1, upto))}} : TRUE

\* the natural number written with the digits ds (their values) in the radix
NatOfDigits(radix, ds0) ==
  CHOOSE r \in {ChunksBlocks(<<>>, radix, ds, 1, Len(ds) \div DigitsPerChunk(radix)) :
                 ds \in {[i \in 1 .. (-Len(ds0)) % DigitsPerChunk(radix) |-> 0] \o ds0}} :
    TRUE

\* a pass of the division by c, what was left over before being kept
OverPass(st, c) ==
  CHOOSE r \in {[q |-> d.q, left |-> st.left \/ d.left] : d \in {OverSmall(st.q, c)}} :
    TRUE

RECURSIVE OverPasses(_, _, _)
OverPasses(st0, c, times) ==
  IF times = 0 THEN st0
  ELSE CHOOSE r \in {OverPasses(st, c, times - 1) : st \in {OverPass(st0, c)}} : TRUE

RECURSIVE OverPassBlocks(_, _, _)
OverPassBlocks(st0, c, times) ==
  IF times = 0 THEN st0
  ELSE CHOOSE r \in {OverPassBlocks(st, c, times - Min(times, PassesPerBlock)) :
                      st \in {OverPasses(st0, c, Min(times, PassesPerBlock))}} : TRUE

\* the integer part of n / 10^k and whether anything is left over
OverTenTo(n, k) ==
  OverPass(OverPassBlocks([q |-> n, left |-> FALSE], PowerOf(10, 4), k \div 4),
           PowerOf(10, k % 4))

\* the Number nearest to (-1)^neg * (n + f) * 2^e, where 0 < f < 1 if more and
\* f = 0 otherwise
NearestNumber(neg, n, e, more) ==
  IF more THEN RoundToDouble(neg, TimesSmall(n, 2, 1), e - 1)
  ELSE RoundToDouble(neg, n, e)

\* the Number nearest to (-1)^neg * d * 10^k, d being written with the decimal
\* digits ds, of which the first and the last are not 0.  10^309 is beyond
\* every finite Number and 10^-324 below half the least one.
DecimalToNumber(neg, ds, k) ==
  IF Len(ds) + k > 309 THEN (IF neg THEN NegInfinity ELSE Infinity)
  ELSE IF Len(ds) + k < -323 THEN Double(neg, <<>>, 0)
  ELSE IF k >= 0
       THEN NearestNumber(neg, NatOfDigits(10, ds \o [i \in 1 .. k |-> 0]), 0, FALSE)
  ELSE LET limbs == (10 * (-k)) \div 39 + 6
           q == OverTenTo([i \in 1 .. limbs |-> 0] \o NatOfDigits(10, ds), -k)
       IN NearestNumber(neg, q.q, -(LimbBits * limbs), q.left)

\* StrWhiteSpaceChar, as far as a string of the module can hold one: TAB, LF,
\* CR, FF and SP, and written as the characters themselves VT (U+000B), NBSP
\* (U+00A0), ZWNBSP (U+FEFF) and the space separator U+1680.  The other space
\* separators (U+2000 .. U+200A, U+202F, U+205F, U+3000) and the line
\* terminators U+2028 and U+2029 cannot be written in a string of the module.
WhiteSpace == {" ", "\t", "\n", "\r", "\f", "", " ", "﻿", " "}

\* s without the white space at its ends
StrTrim(s) ==
  LET ink == {i \in DOMAIN s : s[i] \notin WhiteSpace}
  IN IF ink = {} THEN <<>>
     ELSE SubSeq(s, CHOOSE i \in ink : \A j \in ink : i <= j,
                    CHOOSE i \in ink : \A j \in ink : i >= j)

HexDigits ==
  <<"0", "1", "2", "3", "4", "5", "6", "7", "8", "9", "a", "b", "c", "d", "e", "f">>

HexDigitsUpper ==
  <<"0", "1", "2", "3", "4", "5", "6", "7", "8", "9", "A", "B", "C", "D", "E", "F">>

\* c is a digit of the radix
IsDigitOf(radix, c) ==
  \E i \in 1 .. radix : HexDigits[i] = c \/ HexDigitsUpper[i] = c

IsDigit(c) == IsDigitOf(10, c)

\* the values of the digits of s
DigitValues(s) ==
  [i \in DOMAIN s |->
     (CHOOSE v \in DOMAIN HexDigits : HexDigits[v] = s[i] \/ HexDigitsUpper[v] = s[i]) - 1]

AllDigitsOf(radix, s) == \A i \in DOMAIN s : IsDigitOf(radix, s[i])

\* ds without its leading zeros, and without its trailing zeros
WithoutLeadingZeros(ds) ==
  LET nz == {i \in DOMAIN ds : ds[i] # 0}
  IN IF nz = {} THEN <<>> ELSE SubSeq(ds, CHOOSE i \in nz : \A j \in nz : i <= j, Len(ds))

WithoutTrailingZeros(ds) ==
  LET nz == {i \in DOMAIN ds : ds[i] # 0}
  IN IF nz = {} THEN <<>> ELSE SubSeq(ds, 1, CHOOSE i \in nz : \A j \in nz : i >= j)

\* the radix of a NonDecimalIntegerLiteral 0x.., 0o.., 0b.., or 0 if t is none
RadixOf(t) ==
  IF Len(t) < 3 \/ t[1] # "0" THEN 0
  ELSE LET radix == CASE t[2] \in {"x", "X"} -> 16
                      [] t[2] \in {"o", "O"} -> 8
                      [] t[2] \in {"b", "B"} -> 2
                      [] OTHER -> 0
       IN IF radix # 0 /\ AllDigitsOf(radix, SubSeq(t, 3, Len(t))) THEN radix ELSE 0

\* the value of the digits of an ExponentPart, cut off where every Number is
\* an infinity or zero already
ExponentLimit == 1000000

ExponentOf(s) ==
  LET ds == WithoutLeadingZeros(DigitValues(s))
  IN IF Len(ds) > 6 THEN ExponentLimit ELSE ChunkValue(10, ds, 1, Len(ds))

\* the parts of a StrUnsignedDecimalLiteral other than Infinity: the digits
\* before and after the point and the exponent, ok telling whether t is one
DecimalParts(t) ==
  LET es == {i \in DOMAIN t : t[i] \in {"e", "E"}}
      epos == IF es = {} THEN Len(t) + 1 ELSE CHOOSE i \in es : \A j \in es : i <= j
      mant == SubSeq(t, 1, epos - 1)
      ex == SubSeq(t, epos + 1, Len(t))
      exneg == ex # <<>> /\ ex[1] = "-"
      exds == IF ex # <<>> /\ ex[1] \in {"-", "+"} THEN Tail(ex) ELSE ex
      dots == {i \in DOMAIN mant : mant[i] = "."}
      dot == IF dots = {} THEN Len(mant) + 1 ELSE CHOOSE i \in dots : TRUE
      ip == SubSeq(mant, 1, dot - 1)
      fp == SubSeq(mant, dot + 1, Len(mant))
  IN [ok |-> /\ Cardinality(dots) <= 1
             /\ AllDigitsOf(10, ip) /\ AllDigitsOf(10, fp)
             /\ Len(ip) + Len(fp) >= 1
             /\ es # {} => (exds # <<>> /\ AllDigitsOf(10, exds)),
      ip |-> ip, fp |-> fp, noexp |-> es = {}, exneg |-> exneg, exds |-> exds]

\* the Number of a StrUnsignedDecimalLiteral with the parts p, negated if neg
NumberOfParts(neg, p) ==
  LET ex == IF p.noexp THEN 0
            ELSE IF p.exneg THEN -ExponentOf(p.exds) ELSE ExponentOf(p.exds)
      lead == WithoutLeadingZeros(DigitValues(p.ip \o p.fp))
      ds == WithoutTrailingZeros(lead)
  IN IF ds = <<>> THEN Double(neg, <<>>, 0)
     ELSE DecimalToNumber(neg, ds, ex - Len(p.fp) + (Len(lead) - Len(ds)))

\* StringToNumber: the Number a string converts to.  White space at the ends
\* is dropped; what is left is empty (0), a NonDecimalIntegerLiteral, or a
\* StrDecimalLiteral: a sign, then Infinity or decimal digits with an optional
\* point and an optional exponent; anything else is NaN
StringToNumber(s) ==
  LET t == StrTrim(s)
      negative == t # <<>> /\ t[1] = "-"
      body == IF t # <<>> /\ t[1] \in {"-", "+"} THEN Tail(t) ELSE t
  IN IF t = <<>> THEN Double(FALSE, <<>>, 0)
     ELSE IF RadixOf(t) # 0
          THEN NearestNumber(FALSE,
                             NatOfDigits(RadixOf(t), DigitValues(SubSeq(t, 3, Len(t)))),
                             0, FALSE)
     ELSE IF body = <<"I", "n", "f", "i", "n", "i", "t", "y">>
          THEN (IF negative THEN NegInfinity ELSE Infinity)
     ELSE IF DecimalParts(body).ok THEN NumberOfParts(negative, DecimalParts(body))
     ELSE NaN

\* the conversion to Number that isNaN and the unary + apply to their operand
ToNumber(v) ==
  CASE v.type = "number" -> v.num
    [] v.type = "string" -> StringToNumber(v.str)
    [] v.type = "undefined" -> NaN
    [] v.type = "null" -> NumberOf(0)

\* the global isNaN(v)
isNaN(v) == ToNumber(v) = NaN

NoLatLng == [lat |-> NaN, lng |-> NaN]

\* new LatLng(lat, lng): throws when isNaN holds of a component, otherwise
\* keeps +lat and +lng
NewLatLng(lat, lng) ==
  IF isNaN(lat) \/ isNaN(lng) THEN [threw |-> TRUE, latlng |-> NoLatLng]
  ELSE [threw |-> FALSE, latlng |-> [lat |-> ToNumber(lat), lng |-> ToNumber(lng)]]

\* the values given as a latitude or a longitude: numbers, the strings of each
\* form StringToNumber tells apart, undefined and null
JsValues ==
  {JsNumber(NumberOf(0)), JsNumber(NumberOf(51)), JsNumber(NaN),
   JsNumber(Infinity), JsNumber(NegInfinity),
   JsString(<<"a", "b", "c">>), JsString(<<"1", "2">>), JsString(<<" ", "1", "2">>),
   JsString(<<" ", "1", "2", "">>),
   JsString(<<"1", ".", "5">>), JsString(<<"1", "e", "3">>),
   JsString(<<"0", "x", "1", "0">>), JsString(<<"-", "0", "x", "1", "0">>),
   JsString(<<" ">>), JsString(<<"I", "n", "f", "i", "n", "i", "t", "y">>),
   JsUndefined, JsNull}

LatLngInputs ==
  [fn : {"input"}, lat : JsValues, lng : JsValues, threw : {FALSE},
   made : {NoLatLng}, center : {[lat |-> NumberOf(0), lng |-> NumberOf(0)]}]

InitLatLng == InitObjects /\ RoundedHost /\ pure \in LatLngInputs

\* what a call of new LatLng(lat, lng) or of setView([lat, lng], zoom) leaves:
\* only the center changes among the fields kept here, and the map's other
\* fields are computed from it
Constructed(p) ==
  /\ pure' = p
  /\ UNCHANGED <<mathPow, pointMethods, pixelOriginNumber, ev, lastOn, lastOff, lastFire, center, zoom, pixelOrigin, size, panePos,
                 anim, frames, nextId, now, layer, last, seen>>

\* new LatLng(lat, lng)
ConstructLatLng ==
  /\ pure.fn = "input"
  /\ LET r == NewLatLng(pure.lat, pure.lng)
     IN Constructed([pure EXCEPT !.fn = "LatLng", !.threw = r.threw, !.made = r.latlng])

\* setView([lat, lng], zoom): this._center = new LatLng(...latlng); a throw of
\* the constructor leaves the center as it was
SetViewOfArray ==
  /\ pure.fn = "input"
  /\ LET r == NewLatLng(pure.lat, pure.lng)
     IN Constructed([pure EXCEPT !.fn = "setView", !.threw = r.threw,
                                 !.center = IF r.threw THEN @ ELSE r.latlng])

NextLatLng ==
  \/ ConstructLatLng
  \/ SetViewOfArray

SpecLatLng == InitLatLng /\ [][NextLatLng]_vars

(***************************************************************************)
(* SpecProjection: Map.project, then Map.unproject of the point projected. *)
(***************************************************************************)
\* |x|, x + y and x < y on Numbers
NumberAbs(x) == IF x.neg THEN NumberNegate(x) ELSE x

NumberAdd(x, y) == NumberSubtract(x, NumberNegate(y))

NumberLess(x, y) ==
  /\ x.t # "NaN" /\ y.t # "NaN"
  /\ x # y
  /\ \/ x.t = "-Infinity"
     \/ y.t = "Infinity"
     \/ /\ x.t = "finite" /\ y.t = "finite"
        /\ LET d == NumberSubtract(x, y)
           IN d.neg /\ (d.m # <<>> \/ d.t # "finite")

\* the four operations, every operand bound to its value to be evaluated once
Sum(x0, y0) == CHOOSE r \in {NumberAdd(x, y) : x \in {x0}, y \in {y0}} : TRUE

Difference(x0, y0) == CHOOSE r \in {NumberSubtract(x, y) : x \in {x0}, y \in {y0}} : TRUE

Product(x0, y0) == CHOOSE r \in {NumberMultiply(x, y) : x \in {x0}, y \in {y0}} : TRUE

Ratio(x0, y0) == CHOOSE r \in {NumberDivide(x, y) : x \in {x0}, y \in {y0}} : TRUE

One == NumberOf(1)

Two == NumberOf(2)

\* 2^k
TwoTo(k) == Double(FALSE, Shl(<<1>>, Precision - 1), k - Precision + 1)

\* cs[i] + t * (cs[i + 1] + t * ( ... + t * cs[Len(cs)])), each operation rounded
RECURSIVE Horner(_, _, _)
Horner(cs, t, i) ==
  IF i = Len(cs) THEN cs[i]
  ELSE Sum(cs[i], Product(t, Horner(cs, t, i + 1)))

(***************************************************************************)
(* Math.exp and Math.atan.  The language leaves their values to the        *)
(* implementation.  MathExp and MathAtan are V8's (Node, Chrome): its      *)
(* ieee754::exp and ieee754::atan, the fdlibm algorithms, in double        *)
(* arithmetic operation by operation.  Another engine or C library may     *)
(* give a double next to V8's, so unproject draws its latitude from the    *)
(* values that the neighbours of each function's result lead to.           *)
(***************************************************************************)
\* ln 2 in two parts, 1 / ln 2, the arguments beyond which exp overflows and
\* underflows, e, and the coefficients P1 .. P5 of exp's polynomial
ln2HI == Double(FALSE, <<0, 5888, 4287, 3164, 1>>, -53)

ln2LO == Double(FALSE, <<7286, 3017, 7117, 5235, 1>>, -85)

invln2 == Double(FALSE, <<766, 2396, 4569, 3626, 1>>, -52)

oThreshold == Double(FALSE, <<6639, 6097, 4287, 3164, 1>>, -43)

uThreshold == Double(TRUE, <<4177, 2409, 1077, 3730, 1>>, -43)

MathE == Double(FALSE, <<5993, 6306, 674, 2942, 1>>, -51)

ExpP ==
  <<Double(FALSE, <<5438, 2730, 5461, 2730, 1>>, -55),
    Double(TRUE, <<7571, 5621, 6917, 3458, 1>>, -61),
    Double(FALSE, <<7724, 6446, 6827, 684, 1>>, -66),
    Double(TRUE, <<3057, 3731, 4209, 6010, 1>>, -72),
    Double(FALSE, <<1232, 5621, 6748, 3182, 1>>, -77)>>

\* the least doubles whose high word is beyond 0x3FD62E42 (0.5 ln 2), and of
\* high word 0x3FF0A2B2 (1.5 ln 2) and 0x40862E42 (709.78)
HalfLn2 == Double(FALSE, <<0, 0, 4288, 3164, 1>>, -54)

OneAndHalfLn2 == Double(FALSE, <<0, 0, 3200, 325, 1>>, -52)

ExpRange == Double(FALSE, <<0, 0, 4224, 3164, 1>>, -43)

\* x = k * ln 2 + (hi - lo): the argument reduction of exp
ExpReduction(x) ==
  IF NumberLess(NumberAbs(x), HalfLn2) THEN [hi |-> x, lo |-> NumberOf(0), k |-> 0]
  ELSE IF NumberLess(NumberAbs(x), OneAndHalfLn2)
       THEN [hi |-> Difference(x, IF x.neg THEN NumberNegate(ln2HI) ELSE ln2HI),
             lo |-> IF x.neg THEN NumberNegate(ln2LO) ELSE ln2LO,
             k |-> IF x.neg THEN -1 ELSE 1]
  ELSE CHOOSE red \in {[hi |-> Difference(x, Product(NumberOf(k), ln2HI)),
                        lo |-> Product(NumberOf(k), ln2LO),
                        k |-> k] :
                        k \in {Truncated(Sum(Product(invln2, x),
                                             Double(x.neg, One.m, One.e - 1)))}} : TRUE

\* c = r - t * (P1 + t * (P2 + t * (P3 + t * (P4 + t * P5)))), t = r * r
ExpSeries(r) ==
  CHOOSE c \in {Difference(r, Product(t, Horner(ExpP, t, 1))) : t \in {Product(r, r)}} : TRUE

\* exp of the reduced argument r, times 2^k: the product is exact unless it
\* is below the least normal Number or beyond the greatest
ExpScaled(red, r, c) ==
  IF red.k = 0
  THEN Difference(One, Difference(Ratio(Product(r, c), Difference(c, Two)), r))
  ELSE CHOOSE v \in {RoundToDouble(y.neg, y.m, y.e + red.k) :
                      y \in {Difference(One,
                                        Difference(Difference(red.lo,
                                                              Ratio(Product(r, c),
                                                                    Difference(Two, c))),
                                                   red.hi))}} : TRUE

ExpReduced(red, r) == CHOOSE v \in {ExpScaled(red, r, c) : c \in {ExpSeries(r)}} : TRUE

ExpOf(x) ==
  IF ~NumberLess(NumberAbs(x), ExpRange) /\ NumberLess(oThreshold, x) THEN Infinity
  ELSE IF ~NumberLess(NumberAbs(x), ExpRange) /\ NumberLess(x, uThreshold)
       THEN NumberOf(0)
  ELSE IF x = One THEN MathE
  ELSE IF NumberLess(NumberAbs(x), TwoTo(-28)) THEN Sum(One, x)
  ELSE CHOOSE v \in UNION {{ExpReduced(red, r) : r \in {Difference(red.hi, red.lo)}} :
                            red \in {ExpReduction(x)}} : TRUE

\* Math.exp(x)
MathExp(x0) ==
  CASE x0.t = "NaN" -> NaN
    [] x0.t = "Infinity" -> Infinity
    [] x0.t = "-Infinity" -> NumberOf(0)
    [] x0.t = "finite" -> CHOOSE v \in {ExpOf(x) : x \in {x0}} : TRUE

\* atan(0.5), atan(1), atan(1.5) and atan(inf) in two parts each, and the
\* coefficients aT[0], aT[2], .. and aT[1], aT[3], .. of atan's polynomial
atanhi ==
  <<Double(FALSE, <<6991, 2829, 6593, 7000, 1>>, -54),
    Double(FALSE, <<3352, 545, 7893, 4675, 1>>, -53),
    Double(FALSE, <<5787, 5135, 756, 7910, 1>>, -53),
    Double(FALSE, <<3352, 545, 7893, 4675, 1>>, -52)>>

atanlo ==
  <<Double(FALSE, <<1506, 4475, 8136, 5206, 1>>, -108),
    Double(FALSE, <<7175, 6306, 2444, 844, 1>>, -107),
    Double(FALSE, <<3005, 6022, 542, 15, 1>>, -108),
    Double(FALSE, <<7175, 6306, 2444, 844, 1>>, -106)>>

aTEven ==
  <<Double(FALSE, <<5389, 2730, 5461, 2730, 1>>, -54),
    Double(FALSE, <<1023, 4100, 2340, 1170, 1>>, -55),
    Double(FALSE, <<110, 2657, 4977, 3723, 1>>, -56),
    Double(FALSE, <<7505, 1665, 6568, 538, 1>>, -56),
    Double(FALSE, <<3563, 944, 4809, 4854, 1>>, -57),
    Double(FALSE, <<6673, 6422, 3768, 346, 1>>, -58)>>

aTOdd ==
  <<Double(TRUE, <<3012, 3271, 1638, 4915, 1>>, -55),
    Double(TRUE, <<5745, 4376, 4543, 6371, 1>>, -56),
    Double(TRUE, <<6765, 7076, 7339, 1889, 1>>, -56),
    Double(TRUE, <<7578, 5879, 2900, 7100, 1>>, -57),
    Double(TRUE, <<3119, 851, 4363, 1384, 1>>, -57)>>

\* x * (s1 + s2), s1 and s2 the even and the odd terms of the polynomial
AtanTail(x, z, w) ==
  Product(x, Sum(Product(z, Horner(aTEven, w, 1)), Product(w, Horner(aTOdd, w, 1))))

AtanSeries(x) ==
  CHOOSE s \in UNION {{AtanTail(x, z, w) : w \in {Product(z, z)}} :
                       z \in {Product(x, x)}} : TRUE

\* the interval |x| >= 7/16 lies in (1: up to 11/16, 2: up to 19/16, 3: up to
\* 39/16, 4: beyond) and the argument reduced into it
AtanReduction(x) ==
  IF NumberLess(x, Ratio(NumberOf(11), NumberOf(16)))
  THEN [id |-> 1, r |-> Ratio(Difference(Product(Two, x), One), Sum(Two, x))]
  ELSE IF NumberLess(x, Ratio(NumberOf(19), NumberOf(16)))
       THEN [id |-> 2, r |-> Ratio(Difference(x, One), Sum(x, One))]
  ELSE IF NumberLess(x, Ratio(NumberOf(39), NumberOf(16)))
       THEN [id |-> 3, r |-> Ratio(Difference(x, Ratio(NumberOf(3), Two)),
                                   Sum(One, Product(Ratio(NumberOf(3), Two), x)))]
  ELSE [id |-> 4, r |-> Ratio(NumberOf(-1), x)]

\* atanhi[id] - ((r * (s1 + s2) - atanlo[id]) - r)
AtanReduced(red) ==
  Difference(atanhi[red.id],
             Difference(Difference(AtanSeries(red.r), atanlo[red.id]), red.r))

AtanOf(x) ==
  IF ~NumberLess(NumberAbs(x), TwoTo(66))
  THEN Double(x.neg, Sum(atanhi[4], atanlo[4]).m, Sum(atanhi[4], atanlo[4]).e)
  ELSE IF NumberLess(NumberAbs(x), TwoTo(-29)) THEN x
  ELSE IF NumberLess(NumberAbs(x), Ratio(NumberOf(7), NumberOf(16)))
       THEN Difference(x, AtanSeries(x))
  ELSE CHOOSE a \in {Double(x.neg, v.m, v.e) :
                      v \in {AtanReduced(red) : red \in {AtanReduction(NumberAbs(x))}}} :
         TRUE

\* Math.atan(v)
MathAtan(v) ==
  CASE v.t = "NaN" -> NaN
    [] v.t = "finite" -> CHOOSE a \in {AtanOf(x) : x \in {v}} : TRUE
    [] OTHER -> Double(v.neg, Sum(atanhi[4], atanlo[4]).m, Sum(atanhi[4], atanlo[4]).e)

\* x and the two Numbers next to it, which are 2^MinExponent from it when x
\* is below 2^-1022; NaN, an infinity and a zero stand alone
Neighbours(x) ==
  IF x.t # "finite" \/ x.m = <<>> THEN {x}
  ELSE LET g == Max(x.e, MinExponent)
           n == Shr(x.m, g - x.e)
       IN {x,
           RoundToDouble(x.neg, NatAdd(n, <<1>>), g),
           IF n = Shl(<<1>>, Precision - 1) /\ g > MinExponent
           THEN RoundToDouble(x.neg, NatSub(Shl(n, 1), <<1>>), g - 1)
           ELSE RoundToDouble(x.neg, NatSub(n, <<1>>), g)}

\* (2 * a - (Math.PI / 2)) * d, a the arc tangent and d = 180 / Math.PI
LatitudeFrom(a) ==
  Product(Difference(Product(Two, a), NumberHalf(MathPI)), Ratio(NumberOf(180), MathPI))

\* (2 * Math.atan(Math.exp(y / earthRadius)) - (Math.PI / 2)) * d: the Numbers
\* a build can give for the latitude of the ordinate y.  Math.exp(0) is 1 in
\* every implementation.
LatitudeOf(y) ==
  UNION {{LatitudeFrom(a) : a \in Neighbours(MathAtan(e))} :
          e \in IF y.t = "finite" /\ y.m = <<>> THEN {One}
                ELSE Neighbours(MathExp(Ratio(y, earthRadius)))}

\* CRS.unproject without the conversion of the longitude to degrees
CRSunprojectRadians(point) ==
  {NewLatLng(JsNumber(l), JsNumber(NumberDivide(point.x, earthRadius))) :
     l \in LatitudeOf(point.y)}

\* CRS.unproject(point): the outcomes of new LatLng(lat, lng) a build can give,
\* one for each latitude its Math.exp and Math.atan can give: the LatLng, or
\* the constructor's throw for a latitude or a longitude that is NaN
CRSunproject(point) ==
  {NewLatLng(JsNumber(l),
             JsNumber(NumberDivide(NumberMultiply(point.x,
                                                  NumberDivide(NumberOf(180), MathPI)),
                                   earthRadius))) :
     l \in LatitudeOf(point.y)}

\* Map.unproject(point, zoom): the outcomes a build can give
MapUnproject(point, pow) == CRSunproject(divideNumbers(point, ScaleOverRadius(pow)))

\* Math.round(x * 1e7): a Number of degrees in 1/10000000 degree
TenMillionths(x) == Truncated(NumberRound(NumberMultiply(x, NumberOf(10000000))))

ProjectionLatLngs ==
  {Origin, London, LatLng(-33869, 151209), LatLng(85051, 180000),
   LatLng(-85051, -180000), LatLng(89000, -74006), LatLng(-90000, 0)}

ProjectionInputs ==
  [fn : {"input"}, ll : ProjectionLatLngs, z : 0 .. MaxCenterZoom,
   point : {NoNumberPoint}, lat : {0}, lng : {0}, threw : {FALSE}]

InitProjection == InitObjects /\ RoundedHost /\ pure \in ProjectionInputs

\* the outcome r of a call of project or unproject
Projected(r) ==
  /\ pure' = r
  /\ UNCHANGED <<mathPow, pointMethods, pixelOriginNumber, ev, lastOn, lastOff, lastFire, center, zoom, pixelOrigin, size, panePos,
                 anim, frames, nextId, now, layer, last, seen>>

\* map.project(ll, z)
Project ==
  /\ pure.fn = "input"
  /\ Projected([pure EXCEPT !.fn = "project", !.point = MapProject(pure.ll, PowerOfTwo(pure.z))])

\* the outcome r of unproject: its throw, or the LatLng it returned, kept in
\* 1/10000000 degree
Unprojected(r) ==
  Projected(IF r.threw THEN [pure EXCEPT !.fn = "unproject", !.threw = TRUE]
            ELSE [pure EXCEPT !.fn = "unproject",
                              !.lat = TenMillionths(r.latlng.lat),
                              !.lng = TenMillionths(r.latlng.lng)])

\* map.unproject(point, z) of the point just projected
Unproject ==
  /\ pure.fn = "project"
  /\ \E r \in MapUnproject(pure.point, PowerOfTwo(pure.z)) : Unprojected(r)

NextProjection ==
  \/ Project
  \/ Unproject

SpecProjection == InitProjection /\ [][NextProjection]_vars

(***************************************************************************)
(* SpecAnimation: the pan animation under a host that delivers every frame *)
(* callback it was asked for, Date.now() having advanced by then.  A frame *)
(* callback is requested only while an animation is short of its duration, *)
(* and every delivery advances the clock, so the clock needs no bound.     *)
(* The map is panned with every option and its view is set again as it is. *)
(***************************************************************************)
\* the host runs a pending frame callback, some clock steps after it was requested
DeliverFrame ==
  \E f \in frames, steps \in 1 .. 2 :
    Animated(now + steps * ClockStep,
             animate(anim, frames \ {f}, nextId, now + steps * ClockStep))

NextAnimation ==
  \/ PanBy
  \/ DeliverFrame
  \/ ResetView

SpecAnimation == Init /\ [][NextAnimation]_vars /\ WF_vars(DeliverFrame)

(***************************************************************************)
(* SpecBounds: Bounds as the object it is.  Points are objects on a heap   *)
(* (heap[i] is the Point of identity i) and a Bounds holds the identities  *)
(* of its min and max, 0 while they are undefined, so that a Point shared  *)
(* between a Bounds and its caller, and a write through it, show.  heap[1] *)
(* is the map's _pixelOrigin and heap[2] a Point of the caller's.  An      *)
(* argument of extend is a Point on the heap or a plain object {x, y}.     *)
(***************************************************************************)
MaxExtends == 3

PixelOriginId == 1

CallerPointId == 2

PointArg(id) == [isPoint |-> TRUE, id |-> id, x |-> 0, y |-> 0]

PlainArg(x, y) == [isPoint |-> FALSE, id |-> 0, x |-> x, y |-> y]

\* new Point(x, y): the heap with the new object, whose identity is its length
NewPoint(h, x, y) == Append(h, Point(x, y))

\* p.clone()
clone(h, p) == NewPoint(h, h[p].x, h[p].y)

\* extend(obj) that keeps the Point it is given as its min and max
extendKeepingThePoint(s, obj) ==
  LET h == IF obj.isPoint THEN s.heap ELSE NewPoint(s.heap, obj.x, obj.y)
      p == IF obj.isPoint THEN obj.id ELSE Len(h)
  IN IF s.min = 0
     THEN [s EXCEPT !.heap = h, !.min = p, !.max = p]
     ELSE LET h1 == [h EXCEPT ![s.min].x = Min(h[s.min].x, h[p].x)]
              h2 == [h1 EXCEPT ![s.min].y = Min(h1[s.min].y, h1[p].y)]
              h3 == [h2 EXCEPT ![s.max].x = Max(h2[s.max].x, h2[p].x)]
              h4 == [h3 EXCEPT ![s.max].y = Max(h3[s.max].y, h3[p].y)]
          IN [s EXCEPT !.heap = h4]

\* extend(obj): the four assignments in the order of the code, each reading
\* the heap the one before it left
BoundsExtend(s, obj) ==
  LET h == IF obj.isPoint THEN s.heap ELSE NewPoint(s.heap, obj.x, obj.y)
      p == IF obj.isPoint THEN obj.id ELSE Len(h)
  IN IF s.min = 0
     THEN LET c1 == clone(h, p)
              c2 == clone(c1, p)
          IN [s EXCEPT !.heap = c2, !.min = Len(c1), !.max = Len(c2)]
     ELSE LET h1 == [h EXCEPT ![s.min].x = Min(h[s.min].x, h[p].x)]
              h2 == [h1 EXCEPT ![s.min].y = Min(h1[s.min].y, h1[p].y)]
              h3 == [h2 EXCEPT ![s.max].x = Max(h2[s.max].x, h2[p].x)]
              h4 == [h3 EXCEPT ![s.max].y = Max(h3[s.max].y, h3[p].y)]
          IN [s EXCEPT !.heap = h4]

\* new Bounds(a, b), both given
NewBounds(s, a, b) ==
  BoundsExtend(BoundsExtend([s EXCEPT !.min = 0, !.max = 0], a), b)

\* contains(p), p a Point or a plain object with coordinates x and y
BoundsContains(s, p) ==
  /\ p.x >= s.heap[s.min].x
  /\ p.x <= s.heap[s.max].x
  /\ p.y >= s.heap[s.min].y
  /\ p.y <= s.heap[s.max].y

\* isValid()
BoundsIsValid(s) == s.min # 0 /\ s.max # 0

\* getPixelBounds(), the container being of size sz: nw is this._pixelOrigin
\* itself and nw.add(size) a new Point
MapGetPixelBounds(s, sz) ==
  LET h == NewPoint(s.heap, s.heap[PixelOriginId].x + sz.x, s.heap[PixelOriginId].y + sz.y)
  IN NewBounds([s EXCEPT !.heap = h], PointArg(PixelOriginId), PointArg(Len(h)))

\* points left of, inside and right of the initial viewport, above it and inside
BoundsPoints == {Px(x, y) : x \in {-400, 0, 400}, y \in {-300, 0}}

\* an argument as the call found it: its identity (0 for a plain object) and
\* its coordinates
Passed(s, obj) ==
  [id |-> obj.id,
   at |-> IF obj.isPoint THEN s.heap[obj.id] ELSE Point(obj.x, obj.y)]

\* a new Bounds() with no argument, beside the map's pixel origin and a Point
\* of the caller's
BoundsInputs ==
  {[fn |-> "new Bounds", heap |-> <<pixelOrigin, a>>, min |-> 0, max |-> 0,
    extended |-> <<>>, calls |-> 0] : a \in BoundsPoints}

InitBounds == InitObjects /\ RoundedHost /\ pure \in BoundsInputs

\* the Points the caller holds: the pixel origin, its own Point, and whatever
\* it passed before
CallerArgs ==
  {PointArg(PixelOriginId), PointArg(CallerPointId)}
    \cup {PlainArg(q.x, q.y) : q \in BoundsPoints}

\* bounds.extend(obj)
ExtendBounds ==
  \E obj \in CallerArgs :
    /\ pure.calls < MaxExtends
    /\ pure' = [BoundsExtend(pure, obj) EXCEPT
                  !.fn = "extend",
                  !.extended = Append(pure.extended, Passed(pure, obj)),
                  !.calls = pure.calls + 1]
    /\ UNCHANGED <<mathPow, pointMethods, pixelOriginNumber, ev, lastOn, lastOff, lastFire, center, zoom, pixelOrigin, size, panePos,
                   anim, frames, nextId, now, layer, last, seen>>

\* bounds = map.getPixelBounds(): the Bounds at hand is from now on the one returned
GetPixelBounds ==
  /\ pure.calls < MaxExtends
  /\ LET r == MapGetPixelBounds(pure, getSize(CurrentView))
     IN pure' = [r EXCEPT
                   !.fn = "getPixelBounds",
                   !.extended = <<Passed(r, PointArg(PixelOriginId)),
                                  Passed(r, PointArg(Len(pure.heap) + 1))>>,
                   !.calls = pure.calls + 1]
  /\ UNCHANGED <<mathPow, pointMethods, pixelOriginNumber, ev, lastOn, lastOff, lastFire, center, zoom, pixelOrigin, size, panePos,
                 anim, frames, nextId, now, layer, last, seen>>

NextBounds ==
  \/ ExtendBounds
  \/ GetPixelBounds

SpecBounds == InitBounds /\ [][NextBounds]_vars

(***************************************************************************)
(* The properties.                                                         *)
(***************************************************************************)

\* the pixel origin the view calls for: the projected center minus half of the
\* container's current size
ExpectedOrigin == subtract(project(center, zoom), divideBy(getSize(CurrentView), 2))

\* C1: in every reachable state of a Map, after any sequence of view operations
\* and changes of the container's size, pixelOrigin equals project(center, zoom)
\* minus half the current viewport size.
C1_PixelOriginFollowsView == pixelOrigin = ExpectedOrigin

\* C1: the container has just been resized and no view operation has run since.
C1_Resized == last.op = "resize" /\ size # Point(600, 400)

\* C2: pan cancellation.  Every pending frame callback belongs to the run that is
\* current and is the one the animation holds the handle of, so at most one
\* animation is active and no callback of an earlier run can run again; and once
\* no callback is pending, the pane rests at the target of the latest animated
\* pan (the pane position at its call minus its offset) unless a later call has
\* set the pane at once.
C2_PanCancellation ==
  /\ \A f \in frames : f.run = anim.run /\ f.id = anim.animId
  /\ Cardinality(frames) <= 1
  /\ (anim.exists /\ anim.current /\ frames = {}) => panePos = anim.target

\* C2: an animated pan that began while another was in flight has run over
\* several frames to its end, and the pane rests at its target.
C2_SecondPanFinished ==
  /\ anim.interrupted
  /\ anim.current
  /\ anim.duration > 0
  /\ anim.ended = 1
  /\ frames = {}
  /\ last.op = "frame"
  /\ panePos = anim.target
  /\ panePos # anim.startPos

\* the key set tile reconciliation is to make resident: the keys of the tile
\* range of the current pixel bounds, at the rounded zoom
RequiredKeys ==
  DOMAIN RequiredTiles(TileRange(getPixelBounds(CurrentView)), MathRound(zoom, ZoomDen))

\* C3: with a tile layer attached, whenever setView, setZoom or panBy has
\* returned to its caller, the layer's resident tile keys are exactly the
\* required keys of the current pixel bounds and rounded zoom.
C3_TilesReconciledOnReturn ==
  (layer.inRegistry /\ last.op \in {"setView", "panBy", "panByAnimated"} /\ ~last.threw)
    => DOMAIN layer.tiles = RequiredKeys

\* C3: a view operation has returned normally on a map that holds a tile layer.
C3_ViewSetWithLayer ==
  layer.inRegistry /\ layer.map /\ last.op = "setView" /\ ~last.threw

\* C4: Point provides floor and ceil, and tile reconciliation runs to completion
\* without raising an error whenever a tile layer is attached.
C4_UpdateCompletes ==
  last.op = "addLayer" => (~last.threw /\ {"floor", "ceil"} \subseteq PointMethods)

\* C4: addLayer has just run onAdd, which calls _update on the attached layer.
C4_LayerAdded == last.op = "addLayer" /\ layer.map /\ layer.inRegistry

\* C5: whenever a moveend listener is invoked by setView, setZoom, panBy or
\* panTo, animated or not, the pixel origin has its final value for the
\* operation and the pane is at its final position.
C5_MoveEndAfterSettled ==
  seen.valid => (seen.origin = pixelOrigin /\ seen.pane = seen.finalPane)

\* C5: a moveend listener has been invoked by an animated panBy.
C5_ListenerSawAnimatedPan == seen.valid /\ seen.op = "panByAnimated"

\* the elements the tile table of the layer l holds
ResidentElements(l) == {l.tiles[k].el : k \in DOMAIN l.tiles}

\* C6: diff minimality.  A call of _update that directly follows another call,
\* the viewport unchanged, adds no tile and removes no tile, and leaves the
\* resident keys and every resident tile element as they were.
C6_SecondUpdateChangesNothing ==
  [][last'.op = "_updateAgain"
       => (last'.added = {} /\ last'.removed = {} /\ layer'.tiles = layer.tiles)]_vars

\* C6: _update has run twice in a row to its end on an attached layer that
\* holds tiles, one of them already loaded.
C6_UpdatedTwice ==
  /\ last.op = "_updateAgain" /\ ~last.threw /\ layer.map
  /\ \E k \in DOMAIN layer.tiles : ~layer.tiles[k].loading

\* the key of the tile that holds the pixel p at the integer zoom z
KeyOfPixel(p, z) ==
  <<wrapX(p.x \div (TileSize * Sub), z), p.y \div (TileSize * Sub), z>>

\* pixels of the bounds b: its corners, the middles of its edges and its centre
SamplePixels(b) ==
  {Point(x, y) : x \in {b.min.x, (b.min.x + b.max.x) \div 2, b.max.x},
                 y \in {b.min.y, (b.min.y + b.max.y) \div 2, b.max.y}}

\* C7: tile enumeration covers the viewport.  After _update has run on an
\* attached layer, the key of the tile under every pixel of the current pixel
\* bounds, at the rounded zoom, is in the set the reconciliation made resident.
C7_EnumerationCoversViewport ==
  (layer.map /\ last.op \in {"addLayer", "_update", "_updateAgain"})
    => \A p \in SamplePixels(getPixelBounds(CurrentView)) :
         KeyOfPixel(p, MathRound(zoom, ZoomDen)) \in DOMAIN layer.tiles

\* C7: _update has been called on an attached layer of a map whose view was set
\* after the layer was added.
C7_UpdatedAfterViewChange ==
  last.op = "_update" /\ layer.map /\ (center # DefaultCenter \/ zoom # DefaultZoom)

\* the number in 0 .. 2^z - 1 congruent to x modulo 2^z
Residue(x, z) == CHOOSE r \in 0 .. Pow2(z) - 1 : (x - r) % Pow2(z) = 0

\* C8: wrapX totality.  For every integer x, negative included, and every
\* integer zoom z >= 0, _wrapX(x, z) is an integer in [0, 2^z) congruent to x
\* modulo 2^z; and the enumeration loop wraps x only: its keys are the residues
\* of the columns with the rows and the zoom as given, each key holding the
\* coordinates it names.
C8_WrapXTotal ==
  /\ pure.fn = "_wrapX" =>
       /\ pure.wx \in 0 .. Pow2(pure.z) - 1
       /\ (pure.wx - pure.x) % Pow2(pure.z) = 0
  /\ pure.fn = "tilesToLoad" =>
       /\ DOMAIN pure.tiles =
            {<<Residue(x, pure.z), y, pure.z>> :
               x \in pure.x .. pure.x + EnumWidth, y \in pure.y .. pure.y + 1}
       /\ \A k \in DOMAIN pure.tiles :
            pure.tiles[k] = [x |-> k[1], y |-> k[2], z |-> k[3]]

\* C8: _wrapX has been applied to a negative column more than one world width
\* left of the origin, and gave a column other than 0.
C8_NegativeColumnWrapped ==
  /\ pure.fn = "_wrapX"
  /\ pure.z >= 2
  /\ pure.x < -Pow2(pure.z)
  /\ pure.wx > 0

\* the invocations of the listeners of arr for a firing of type, in array order
InvocationsOf(arr, type) == [i \in 1 .. Len(arr) |-> Invocation(arr[i], type)]

\* C9: a firing is not corrupted by reentrant mutation.  Every fire(type)
\* returns, having invoked exactly the listeners registered for the type when
\* fire was called, each once, whatever on and off calls the listeners made.
C9_FiringOverSnapshot ==
  lastFire.status # "none" =>
    /\ lastFire.status = "returned"
    /\ lastFire.log = InvocationsOf(lastFire.snapshot, lastFire.type)

\* C9: a firing has returned in which a listener called on for the type fired.
C9_ListenerAddedWhileFiring ==
  /\ lastFire.status = "returned"
  /\ \E i \in DOMAIN lastFire.snapshot : lastFire.snapshot[i].fn = "fAdd"

\* the listener functions that call neither on nor off
PlainListeners == {"fA", "fB", "probe"}

\* C10: every call on(types, fn, ctx) completes and leaves the listener
\* registered under each type of the space-separated list, as the last entry of
\* the type's array.  Every fire(type) returns having invoked, in the same
\* step and in registration order, every listener registered for the type,
\* and, when none of them changes the registry, exactly them.  Every
\* invocation has a payload whose type is the fired type and whose target is
\* the emitter, so no listener of another type is invoked.
C10_OnRegistersFireInvokes ==
  /\ lastOn.fn # Undefined =>
       /\ ~lastOn.threw
       /\ \A i \in DOMAIN Split(lastOn.types) :
            /\ Listeners(ev, Split(lastOn.types)[i]).kind = "array"
            /\ Len(ListenerArray(ev, Split(lastOn.types)[i])) > 0
            /\ Last(ListenerArray(ev, Split(lastOn.types)[i]))
                 = [fn |-> lastOn.fn, ctx |-> lastOn.ctx]
  /\ lastFire.status # "none" =>
       /\ lastFire.status = "returned"
       /\ IsPrefix(InvocationsOf(lastFire.snapshot, lastFire.type), lastFire.log)
       /\ \A i \in DOMAIN lastFire.log :
            lastFire.log[i].type = lastFire.type /\ lastFire.log[i].target = Emitter
       /\ (\A i \in DOMAIN lastFire.snapshot : lastFire.snapshot[i].fn \in PlainListeners)
            => lastFire.log = InvocationsOf(lastFire.snapshot, lastFire.type)

\* C10: on has been called with a list of three types whose second names a
\* member of Object.prototype: the call threw, having registered the listener
\* under the first type and not under the third.
C10_OnCalledWithInheritedName ==
  /\ lastOn.fn # Undefined
  /\ lastOn.threw
  /\ Len(Split(lastOn.types)) = 3
  /\ Split(lastOn.types)[2] \in ObjectPrototypeKeys \cap ev.objects
  /\ Last(ListenerArray(ev, TypeA)) = [fn |-> lastOn.fn, ctx |-> lastOn.ctx]
  /\ ~HasKey(ev, TypeIndex)

\* whether off(ta, fn) designates the listener l registered under type t: the
\* type is the one named (or one of the array, or any type if none is given) and
\* the function is the one given (or any if none is given)
Designates(ta, fn, t, l) ==
  /\ CASE ta.kind = "string" /\ ta.str # <<>> -> t = ta.str
       [] ta.kind = "array" -> \E i \in DOMAIN ta.arr : ta.arr[i] = t
       [] OTHER -> TRUE
  /\ (fn = Undefined \/ l.fn = fn)

\* C11: every call of off completes without error and removes exactly the
\* listeners it designates: under every type, the listeners afterwards are the
\* listeners before that the call does not designate, in their original order.
C11_OffRemovesDesignated ==
  [][last'.op = "off" =>
       /\ ~lastOff'.threw
       /\ \A t \in (DOMAIN ev.reg) \cup (DOMAIN ev'.reg) :
            ListenerArray(ev', t)
              = SelectSeq(ListenerArray(ev, t),
                          LAMBDA l : ~Designates(lastOff'.arg, lastOff'.fn, t, l))]_vars

\* C11: off(type, fn) has been called with a type string on an emitter that
\* holds a listener with that function under that type and another listener.
C11_OffCalledWithTypeString ==
  /\ last.op = "off"
  /\ lastOff.arg.kind = "string"
  /\ lastOff.arg.str = TypeA
  /\ lastOff.fn = "fA"
  /\ Len(ListenerArray(ev, TypeA)) >= 2

\* C12: after removeLayer the layer holds no tile, is not in the map's layer
\* registry, is detached from the map and is not subscribed to moveend; and a
\* layer that is not in the registry never holds a tile, whatever view
\* operations follow.
C12_RemovedLayerIsGone ==
  /\ last.op = "removeLayer" =>
       /\ ~last.threw
       /\ ~layer.inRegistry
       /\ ~layer.map
       /\ \A i \in DOMAIN ListenerArray(ev, MoveEndType) :
            ListenerArray(ev, MoveEndType)[i].fn # "_update"
  /\ ~layer.inRegistry => DOMAIN layer.tiles = {}

\* C12: removeLayer has been called for a layer of a map that has a moveend
\* listener.
C12_RemoveCalledOnListeningMap ==
  last.op = "removeLayer" /\ Len(ListenerArray(ev, MoveEndType)) > 0

\* the state of a tile in its life cycle
TileState(tile) ==
  IF tile.src = Placeholder THEN "errored"
  ELSE IF tile.loading THEN "loading" ELSE "loaded"

\* C13: tile load completions are independent.  In any interleaving of loads,
\* failures and reconciliations, a completion leaves the set of resident keys
\* as it is, changes no tile but the one of its own element, and one that
\* arrives for a retired element does not make that element resident again.
C13_CompletionsAreIndependent ==
  [][last'.op \in {"load", "error"}
       => /\ DOMAIN layer'.tiles = DOMAIN layer.tiles
          /\ \A k \in DOMAIN layer.tiles :
               layer.tiles[k].el # last'.el => layer'.tiles[k] = layer.tiles[k]
          /\ last'.el \notin ResidentElements(layer)
               => last'.el \notin ResidentElements(layer')]_vars

\* C13: a completion has arrived for a retired element whose key is resident
\* again, with a newer element.
C13_RetiredTileCompleted ==
  /\ last.op \in {"load", "error"}
  /\ last.el \notin ResidentElements(layer)
  /\ last.el[2] \in DOMAIN layer.tiles

\* the state of the key k in the layer l
TileStateAt(l, k) == IF k \in DOMAIN l.tiles THEN TileState(l.tiles[k]) ELSE "absent"

\* the steps of the life cycle of a key: requested, loaded, failed, and retired
LifecycleSteps ==
  {<<"absent", "loading">>, <<"loading", "loaded">>, <<"loading", "errored">>,
   <<"loading", "absent">>, <<"loaded", "absent">>, <<"errored", "absent">>}

\* C14: a key goes from absent to loading and from there to loaded or to
\* errored.  A failure makes its tile errored with the fixed placeholder as
\* source and raises nothing; a reconciliation that finds an errored tile runs
\* to its end and keeps the tile while its key is required; and the URL of a
\* resident tile is requested once.
C14_TileLifecycle ==
  [][/\ \A k \in (DOMAIN layer.tiles) \cup (DOMAIN layer'.tiles) :
          \/ TileStateAt(layer', k) = TileStateAt(layer, k)
          \/ <<TileStateAt(layer, k), TileStateAt(layer', k)>> \in LifecycleSteps
     /\ last'.op = "error"
          => /\ ~last'.threw
             /\ \A k \in DOMAIN layer'.tiles :
                  layer'.tiles[k].el = last'.el
                    => (layer'.tiles[k].src = Placeholder
                        /\ TileStateAt(layer', k) = "errored")
     /\ (/\ last'.op \in {"setView", "_update", "_updateAgain"}
         /\ \E k \in DOMAIN layer.tiles : TileStateAt(layer, k) = "errored")
          => /\ ~last'.threw
             /\ layer'.made > layer.made
             /\ \A k \in (DOMAIN layer.tiles) \cap (DOMAIN layer'.tiles) :
                  layer'.tiles[k] = layer.tiles[k]
     /\ \A q \in DOMAIN layer'.fetched :
          (q[1] \in ResidentElements(layer') /\ q[2] # Placeholder)
            => layer'.fetched[q] = 1]_vars

\* C14: a reconciliation has run to its end on a layer that holds an errored
\* tile, and has kept it.
C14_ErroredTileKept ==
  /\ last.op \in {"setView", "_update", "_updateAgain"} /\ ~last.threw
  /\ \E k \in DOMAIN layer.tiles :
       /\ TileStateAt(layer, k) = "errored"
       /\ layer.tiles[k].el[1] < layer.made

\* C15: panBy and panTo, animated or not, leave center, zoom and pixelOrigin as
\* they were, and a panBy(offset) that is not animated moves the pane from its
\* position p to exactly p minus offset.
C15_PanMovesOnlyThePane ==
  [][last'.op \in {"panBy", "panByAnimated"} =>
       /\ center' = center
       /\ zoom' = zoom
       /\ pixelOrigin' = pixelOrigin
       /\ pixelOriginNumber' = pixelOriginNumber
       /\ last'.op = "panBy" => panePos' = subtract(panePos, last'.offset)]_vars

\* C15: a panBy that is not animated has moved, by an offset other than zero,
\* a pane that an earlier pan had already taken away from the origin.
C15_PaneMovedTwice ==
  /\ last.op = "panBy"
  /\ last.pans = 2
  /\ last.offset # Point(0, 0)
  /\ panePos # Point(0, 0)
  /\ panePos # subtract(Point(0, 0), last.offset)

\* whether the Number x is finite and below 2^52 in magnitude
BelowTwoTo52(x) == x.t = "finite" /\ (x.m = <<>> \/ BitLen(x.m) + x.e <= 52)

\* C16 as stated: after setView(c, z) on a viewport of w x h pixels,
\* latLngToContainerPoint(c) is round((w/2, h/2)), the halves rounded up.
C16_CenterAtRoundedHalfSize ==
  pure.fn = "latLngToContainerPoint" =>
    /\ pure.at.x = NumberOf(MathRound(pure.size.x, 2))
    /\ pure.at.y = NumberOf(MathRound(pure.size.y, 2))

\* C16: after setView(c, z) on a viewport of w x h pixels, whatever the center,
\* the zoom and the size, latLngToContainerPoint(c) has in each coordinate:
\* NaN if the projected center is not finite there; and, if the pixel origin
\* is below 2^52 in magnitude there, the half of the size rounded up or down,
\* which is the half itself when the size is even.
C16_CenterWithinHalfPixel ==
  pure.fn = "latLngToContainerPoint" =>
    LET p == MapProject(pure.c, pure.pow)
    IN /\ p.x.t # "finite" => pure.at.x = NaN
       /\ p.y.t # "finite" => pure.at.y = NaN
       /\ BelowTwoTo52(pure.origin.x) =>
            pure.at.x \in {NumberOf(pure.size.x \div 2), NumberOf((pure.size.x + 1) \div 2)}
       /\ BelowTwoTo52(pure.origin.y) =>
            pure.at.y \in {NumberOf(pure.size.y \div 2), NumberOf((pure.size.y + 1) \div 2)}

\* C16: after setView(London, 12.5) on a viewport of 600 x 400 pixels
\* latLngToContainerPoint(London) has returned (300, 200).
C16_LondonAtViewportCenter ==
  /\ pure.fn = "latLngToContainerPoint"
  /\ pure.c = London
  /\ pure.z = 25
  /\ pure.size = Point(600, 400)
  /\ pure.at = [x |-> NumberOf(300), y |-> NumberOf(200)]

\* C17: constructing a LatLng fails whenever a component is not a finite
\* number, and no LatLng with a non-finite lat or lng becomes the center of a
\* map through setView.
C17_NonFiniteRejected ==
  /\ (pure.fn = "LatLng" /\ ~pure.threw) =>
       (ToNumber(pure.lat).t = "finite" /\ ToNumber(pure.lng).t = "finite")
  /\ pure.fn = "setView" =>
       (pure.center.lat.t = "finite" /\ pure.center.lng.t = "finite")

\* C17: setView has been called with Infinity as the latitude.
C17_InfiniteLatitudeGiven ==
  /\ pure.fn = "setView"
  /\ pure.lat = JsNumber(Infinity)
  /\ pure.lng = JsNumber(NumberOf(0))

\* the template s from position i on, with every placeholder {x}, {y}, {z}
\* replaced by the decimal coordinate and every other character kept
RECURSIVE SubstitutedFrom(_, _, _)
SubstitutedFrom(s, i, co) ==
  IF i > Len(s) THEN <<>>
  ELSE IF OccursAt(s, PlaceholderX, i)
       THEN Decimal(co.x) \o SubstitutedFrom(s, i + Len(PlaceholderX), co)
  ELSE IF OccursAt(s, PlaceholderY, i)
       THEN Decimal(co.y) \o SubstitutedFrom(s, i + Len(PlaceholderY), co)
  ELSE IF OccursAt(s, PlaceholderZ, i)
       THEN Decimal(co.z) \o SubstitutedFrom(s, i + Len(PlaceholderZ), co)
  ELSE <<s[i]>> \o SubstitutedFrom(s, i + 1, co)

\* C18: the URL of a tile is the URL template with its placeholders {x}, {y},
\* {z} substituted by the decimal tile coordinates, all other characters
\* passing through literally.
C18_UrlIsTemplateSubstituted ==
  pure.fn = "_getTileUrl" =>
    pure.url = SubstitutedFrom(pure.template, 1, [x |-> pure.x, y |-> pure.y, z |-> pure.z])

\* C18: the URL of tile x = 3, y = 5, z = 4 has been formed from the template
\* "https://x/{z}/{x}/{y}.png".
C18_ExampleUrlFormed ==
  /\ pure.fn = "_getTileUrl"
  /\ pure.template = TemplateZXY
  /\ pure.x = 3 /\ pure.y = 5 /\ pure.z = 4
  /\ pure.url = <<"h", "t", "t", "p", "s", ":", "/", "/", "x", "/", "4", "/", "3", "/",
                  "5", ".", "p", "n", "g">>

\* C19: for a LatLng whose latitude is within the limit and a zoom of 0 to 20,
\* unproject(project(ll, z), z) is ll within 1e-6 degree (10 units of
\* 1/10000000 degree); a latitude beyond the limit is clamped to the limit and
\* not rejected, the longitude coming back as it was.
C19_ProjectionRoundTrip ==
  pure.fn = "unproject" =>
    /\ ~pure.threw
    /\ pure.lng - 10000 * pure.ll.lng < 10
    /\ 10000 * pure.ll.lng - pure.lng < 10
    /\ (pure.ll.lat <= 85051 /\ pure.ll.lat >= -85051) =>
         /\ pure.lat - 10000 * pure.ll.lat < 10
         /\ 10000 * pure.ll.lat - pure.lat < 10
    /\ pure.ll.lat > 85051 => pure.lat = 850511288
    /\ pure.ll.lat < -85051 => pure.lat = -850511288

\* C19: the LatLng (85.051, 180) has been projected at zoom 20 and unprojected
\* again.
C19_EdgeOfTheWorldAtZoom20 ==
  /\ pure.fn = "unproject"
  /\ ~pure.threw
  /\ pure.ll = LatLng(85051, 180000)
  /\ pure.z = 20
  /\ pure.lat = 850510000
  /\ pure.lng = 1800000000

\* C20: last call wins.  Once setView or a panBy that is not animated has been
\* issued while an animated pan was in flight, the animation no longer moves
\* the pane: a frame callback that runs afterwards leaves the pane where that
\* last call put it.
C20_LastCallWins ==
  [][(last'.op = "frame" /\ ~anim.current) => panePos' = panePos]_vars

\* C20: a frame callback of a pan animation has run after setView or a panBy
\* that is not animated was issued during the animation.
C20_FrameAfterLastCall ==
  last.op = "frame" /\ anim.exists /\ ~anim.current

\* x lies between a and b, the ends included
Between(a, x, b) == (a <= x /\ x <= b) \/ (b <= x /\ x <= a)

\* the step ran _animate(): in run(), called by an animated panBy, or in a
\* frame callback
Ticked == last'.op \in {"frame", "panByAnimated"}

\* a tick short of the duration: the pane is at start + offset * ease(t) with
\* 0 <= t < 1, between the start and the target, and one callback is re-armed
EarlierTick ==
  /\ 0 <= now' - anim'.startTime
  /\ now' - anim'.startTime < anim'.duration
  /\ panePos' = add(anim'.startPos,
                    eased(anim'.offset, now' - anim'.startTime, anim'.duration))
  /\ Between(anim'.startPos.x, panePos'.x, anim'.startPos.x + anim'.offset.x)
  /\ Between(anim'.startPos.y, panePos'.y, anim'.startPos.y + anim'.offset.y)
  /\ frames' = {[id |-> anim'.animId, run |-> anim'.run]}

\* the tick that ends the run: the pane is exactly at start + offset, 'end' has
\* been fired once and no callback is re-armed
LastTick ==
  /\ now' - anim'.startTime >= anim'.duration
  /\ panePos' = add(anim'.startPos, anim'.offset)
  /\ anim'.ended = 1
  /\ frames' = {}

\* run k of the animation is over, or another run has taken its place
Settled(k) ==
  \/ anim.run # k
  \/ anim.ended = 1 /\ frames = {}

\* C21: an animated pan that is not superseded terminates.  With the frame
\* callbacks delivered and the clock advancing, every run of the animation that
\* no later run replaces comes to its end: the tick that ends it sets the pane
\* to exactly start + offset, fires 'end' for the only time and re-arms no
\* callback, and no callback remains afterwards; every tick before it puts the
\* pane at start + offset * ease(t) with 0 <= t < 1, between the start and the
\* target.
C21_AnimatedPanTerminates ==
  /\ [](anim.ended \in {0, 1} /\ (anim.ended = 1 => frames = {}))
  /\ [][Ticked => IF anim'.ended = 0 THEN EarlierTick ELSE LastTick]_vars
  /\ \A k \in 1 .. MaxPans : (anim.run = k) ~> Settled(k)

\* C21: an animated pan of the long duration, which no other pan interrupted,
\* has run over its frames to the end and the pane rests at start + offset.
C21_LongPanRanToItsEnd ==
  /\ last.op = "frame"
  /\ anim.duration = LongDuration
  /\ ~anim.interrupted
  /\ anim.ended = 1
  /\ anim.offset # Point(0, 0)
  /\ panePos = add(anim.startPos, anim.offset)
  /\ frames = {}

\* the Points extended so far, as they were when they were passed
ExtendedPoints == {pure.extended[i].at : i \in DOMAIN pure.extended}

Least(S) == CHOOSE m \in S : \A n \in S : m <= n

Greatest(S) == CHOOSE m \in S : \A n \in S : m >= n

\* C22: a Bounds is invalid until its first extend.  After any non-empty
\* sequence of extend calls its min and max are the component-wise minimum and
\* maximum of all the points extended, contains(p) holds for each of them
\* (those on the edges included), and no Point passed to extend has been changed
\* or has become the Bounds' own min or max: the Bounds getPixelBounds()
\* returns does not share the map's pixelOrigin nor alter it.
C22_BoundsOfExtendedPoints ==
  /\ (pure.extended = <<>>) <=> ~BoundsIsValid(pure)
  /\ pure.extended # <<>> =>
       /\ pure.heap[pure.min] = Point(Least({p.x : p \in ExtendedPoints}),
                                      Least({p.y : p \in ExtendedPoints}))
       /\ pure.heap[pure.max] = Point(Greatest({p.x : p \in ExtendedPoints}),
                                      Greatest({p.y : p \in ExtendedPoints}))
       /\ \A p \in ExtendedPoints : BoundsContains(pure, p)
       /\ pure.min # pure.max
       /\ \A i \in DOMAIN pure.extended :
            pure.extended[i].id # 0 =>
              /\ pure.heap[pure.extended[i].id] = pure.extended[i].at
              /\ pure.extended[i].id \notin {pure.min, pure.max}
  /\ pure.heap[PixelOriginId] = pixelOrigin

\* C22: the Bounds returned by getPixelBounds() has been extended by a point
\* above and to the left of the pixel origin, so that its min has moved away
\* from the pixel origin.
C22_PixelBoundsExtendedBeyondOrigin ==
  /\ pure.fn = "extend"
  /\ Len(pure.extended) = 3
  /\ pure.extended[1].id = PixelOriginId
  /\ pure.heap[pure.min].x < pixelOrigin.x
  /\ pure.heap[pure.min].y < pixelOrigin.y

====
